---- MODULE Spec2Model ----
(***************************************************************************)
(* Retry controller (app.py, handle_user_message) and session store        *)
(* (trail.py, ChatHistory) of the BlenderMCP-AI-AGNO submission.           *)
(*                                                                         *)
(* Python strings are modelled as sequences of one-character strings, so   *)
(* that substring search, lower-casing, the retryDelay regular expression  *)
(* and timestamp formatting are computed as the code computes them.        *)
(***************************************************************************)
EXTENDS Integers, Sequences, FiniteSets, TLC

(***************************************************************************)
(* Bounds of the model                                                     *)
(***************************************************************************)
\* largest explicit max_retries argument tried
MaxRetriesArg == 3

\* CONFIG["MAX_RETRIES"] and CONFIG["RETRY_DELAY"] defaults
MAX_RETRIES == 3
RETRY_DELAY == 20

\* Python None / a present value
None == << >>
Some(x) == << x >>

(***************************************************************************)
(* Strings                                                                 *)
(***************************************************************************)
UpperChars == << "A","B","C","D","E","F","G","H","I","J","K","L","M",
                 "N","O","P","Q","R","S","T","U","V","W","X","Y","Z" >>
LowerChars == << "a","b","c","d","e","f","g","h","i","j","k","l","m",
                 "n","o","p","q","r","s","t","u","v","w","x","y","z" >>
DigitChars == << "0","1","2","3","4","5","6","7","8","9" >>

IsDigit(c) == \E i \in 1..10 : DigitChars[i] = c
DigitVal(c) == (CHOOSE i \in 1..10 : DigitChars[i] = c) - 1

\* str.lower() on one character and on a string
LowerChar(c) ==
  IF \E i \in 1..26 : UpperChars[i] = c
  THEN LowerChars[CHOOSE i \in 1..26 : UpperChars[i] = c]
  ELSE c
Lower(s) == [i \in 1..Len(s) |-> LowerChar(s[i])]

\* s[i..] starts with p
StartsAt(s, i, p) ==
  /\ i >= 1
  /\ i + Len(p) - 1 <= Len(s)
  /\ \A j \in 1..Len(p) : s[i + j - 1] = p[j]

\* Python's  p in s
Contains(s, p) == \E i \in 1..(Len(s) + 1) : StartsAt(s, i, p)

\* int() of a string of decimal digits
RECURSIVE IntOfDigits(_)
IntOfDigits(ds) ==
  IF Len(ds) = 0 THEN 0
  ELSE 10 * IntOfDigits(SubSeq(ds, 1, Len(ds) - 1)) + DigitVal(ds[Len(ds)])

Pow2(n) == 2 ^ n
Max(a, b) == IF a >= b THEN a ELSE b

(***************************************************************************)
(* Provider messages the simulated external call can fail with             *)
(***************************************************************************)
\* "429"
S429 == << "4","2","9" >>
\* "resource_exhausted"
SResExh == << "r","e","s","o","u","r","c","e","_",
              "e","x","h","a","u","s","t","e","d" >>
\* "'retryDelay': '"
SRetryDelayOpen == << "'","r","e","t","r","y","D","e","l","a","y","'",":"," ","'" >>
\* "s'"
SRetryDelayClose == << "s","'" >>

\* "429 Too Many"
MsgTooMany == S429 \o << " ","T","o","o"," ","M","a","n","y" >>
\* "429 'retryDelay': '50s'"
Msg429Delay50 == S429 \o << " " >> \o SRetryDelayOpen \o << "5","0" >> \o SRetryDelayClose
\* "RESOURCE_EXHAUSTED 'retryDelay': '30s'"
MsgResExhDelay30 ==
  << "R","E","S","O","U","R","C","E","_","E","X","H","A","U","S","T","E","D"," " >>
    \o SRetryDelayOpen \o << "3","0" >> \o SRetryDelayClose
\* "finish reason: SAFETY"
MsgSafety == << "f","i","n","i","s","h"," ","r","e","a","s","o","n",":"," ",
                "S","A","F","E","T","Y" >>
\* "timeout"
MsgTimeout == << "t","i","m","e","o","u","t" >>

\* "database is locked"
MsgLocked == << "d","a","t","a","b","a","s","e"," ","i","s"," ",
                "l","o","c","k","e","d" >>

\* the failures the external call can raise: exception class and str(e); the
\* team writes its session to storage during the call, so a storage error
\* (sqlite3.OperationalError) is among them
Failures ==
  { [kind |-> "ModelRateLimitError", msg |-> MsgTooMany],
    [kind |-> "ModelRateLimitError", msg |-> Msg429Delay50],
    [kind |-> "ModelProviderError",  msg |-> MsgTooMany],
    [kind |-> "ModelProviderError",  msg |-> Msg429Delay50],
    [kind |-> "ModelProviderError",  msg |-> MsgResExhDelay30],
    [kind |-> "ModelProviderError",  msg |-> MsgSafety],
    [kind |-> "Exception",           msg |-> MsgTimeout],
    [kind |-> "OperationalError",    msg |-> MsgLocked] }

\* values blender_team.aprint_response can return
Responses == { "resp_a", "resp_b" }

\* explicit arguments of handle_user_message
MaxRetriesArgs == (0 - 1)..MaxRetriesArg
RetryDelayArgs == { 0, 1 }

(***************************************************************************)
(* Clock readings and their formatting (trail.py lines 79, 84, 100)        *)
(***************************************************************************)
\* largest number of rows of the messages table
MaxMessages == 2

\* datetime.now(): seconds and microseconds of a wall-clock reading.  The
\* year-to-minute fields are fixed-width and the same for all readings of the
\* modelled window; they are left out of the formatted strings.  The wall
\* clock is not monotonic: any reading can follow any other.
ClockReadings == { [sec |-> 0, us |-> 0], [sec |-> 0, us |-> 1] }

\* microseconds since the start of the modelled window
Micros(t) == t.sec * 1000000 + t.us

\* n as exactly w decimal digits
RECURSIVE ZeroPad(_, _)
ZeroPad(n, w) ==
  IF w = 0 THEN << >>
  ELSE ZeroPad(n \div 10, w - 1) \o << DigitChars[(n % 10) + 1] >>

\* datetime.strftime("%Y%m%d%H%M%S"): resolution of one second
strftime(t) == ZeroPad(t.sec, 2)

\* datetime.isoformat(): the fraction is omitted when microsecond == 0
isoformat(t) ==
  IF t.us = 0 THEN ZeroPad(t.sec, 2)
  ELSE ZeroPad(t.sec, 2) \o << "." >> \o ZeroPad(t.us, 6)

\* code point of a character of a timestamp
CharCode(c) == IF c = "." THEN 46 ELSE 48 + DigitVal(c)

\* a < b as SQLite compares TEXT values (memcmp, a proper prefix is smaller)
RECURSIVE TextLess(_, _)
TextLess(a, b) ==
  IF Len(b) = 0 THEN FALSE
  ELSE IF Len(a) = 0 THEN TRUE
  ELSE IF CharCode(Head(a)) # CharCode(Head(b))
       THEN CharCode(Head(a)) < CharCode(Head(b))
       ELSE TextLess(Tail(a), Tail(b))

\* isoformat and the comparison of its texts, tabulated over the readings
Iso == [t \in ClockReadings |-> isoformat(t)]

Less == [a \in { Iso[t] : t \in ClockReadings }, b \in { Iso[t] : t \in ClockReadings } |->
           TextLess(a, b)]

\* session ids and message fields the callers pass
\* "s1"
IdS1 == << "s","1" >>
\* "00"
Id00 == << "0","0" >>
ExplicitIds == { IdS1 }
SessionIdArgs == { IdS1, Id00 }
Descriptions == { "d" }

\* get_recent_sessions(limit=5): the default and two smaller limits
RECENT_LIMIT == 5
Limits == { 0, 1, RECENT_LIMIT }
Roles == { "user", "assistant" }
Contents == { "c" }

(***************************************************************************)
(* Classification of a provider message (app.py lines 254-258)             *)
(***************************************************************************)
\* number of consecutive decimal digits of s starting at position j
RECURSIVE DigitRun(_, _)
DigitRun(s, j) ==
  IF j <= Len(s) /\ IsDigit(s[j]) THEN 1 + DigitRun(s, j + 1) ELSE 0

\* the pattern  'retryDelay': '(\d+)s'  matches s at position i
RetryDelayMatchAt(s, i) ==
  /\ StartsAt(s, i, SRetryDelayOpen)
  /\ LET j == i + Len(SRetryDelayOpen)
         n == DigitRun(s, j)
     IN  n >= 1 /\ StartsAt(s, j + n, SRetryDelayClose)

\* dm = re.search(r"'retryDelay': '(\d+)s'", err_msg): None, or int(dm.group(1))
retryDelay_search(err_msg) ==
  IF \E i \in 1..Len(err_msg) : RetryDelayMatchAt(err_msg, i)
  THEN LET i == CHOOSE k \in 1..Len(err_msg) :
                  /\ RetryDelayMatchAt(err_msg, k)
                  /\ \A m \in 1..(k - 1) : ~RetryDelayMatchAt(err_msg, m)
           j == i + Len(SRetryDelayOpen)
       IN  Some(IntOfDigits(SubSeq(err_msg, j, j + DigitRun(err_msg, j) - 1)))
  ELSE None

\* variant: the second operand of "or" is a non-empty string, always true
is_rl_truthy(err_msg) ==
  Contains(err_msg, S429) \/ Len(SResExh) > 0

\* is_rl = "429" in err_msg or "resource_exhausted" in err_msg.lower()
is_rl(err_msg) ==
  Contains(err_msg, S429) \/ Contains(Lower(err_msg), SResExh)

\* variant: gives up one attempt early
AttemptsRemain_early(att, maxr) == att < maxr - 2

\* variant: off by one, the final attempt still counts as having a successor
AttemptsRemain_le(att, maxr) == att <= maxr - 1

\* variant: every failed attempt counts as having a successor
AttemptsRemain_always(att, maxr) == TRUE

\* attempt < max_retries - 1
AttemptsRemain(att, maxr) == att < maxr - 1

\* variant: divides by the power of two
BackoffWait_div(delay, att) == delay \div Pow2(att)

\* variant: one-based attempt index
BackoffWait_onebased(delay, att) == delay * Pow2(att + 1)

\* variant: constant delay
BackoffWait_const(delay, att) == delay

\* line 251 / 267: wait = retry_delay * (2**attempt)
BackoffWait(delay, att) == delay * Pow2(att)

\* lines 257-259: sugg_delay defaults to retry_delay, replaced by the parsed
\* retryDelay; wait = max(sugg_delay, retry_delay * (2**attempt))
ProviderWait(err_msg, delay, att) ==
  LET dm == retryDelay_search(err_msg)
      sugg_delay == IF dm # None THEN dm[1] ELSE delay
  IN  Max(sugg_delay, delay * Pow2(att))

\* which except clause of lines 249-264 catches an exception of this class
ExceptClause(kind) ==
  IF kind = "ModelRateLimitError" THEN "e_rate"
  ELSE IF kind = "ModelProviderError" THEN "e_prov"
  ELSE "e_gen"

(***************************************************************************)
(* State                                                                   *)
(***************************************************************************)
VARIABLES
  max_retries_arg,   \* argument max_retries: None or Some(n)
  retry_delay_arg,   \* argument retry_delay: None or Some(n)
  max_retries,       \* local max_retries after line 242
  retry_delay,       \* local retry_delay after line 243
  response_content,  \* local response_content
  range_next,        \* next value of the iterator range(max_retries)
  attempt,           \* loop variable
  pc,                \* position of the coroutine
  invocations,       \* number of calls of blender_team.aprint_response
  results,           \* value returned by each successful call, in order
  errors,            \* exception raised by each failed call, in order
  waits,             \* argument of each asyncio.sleep, in order
  returns,           \* values returned to the caller
  raises,            \* exceptions propagated to the caller
  sessions,          \* rows of table sessions, in insertion order
  messages,          \* rows of table messages, in rowid order
  appended,          \* per session id, the number of add_message calls that returned
  stamped,           \* per rowid of messages, the clock reading add_message took
  generated,         \* the ids create_session has generated from the clock
  call,              \* the last ChatHistory call: operation, argument, outcome,
                     \* returned value, and for a query the rowids fetched
  procs,             \* per process, its open connection and transaction
  writer,            \* the process holding the database write lock, 0 for none
  run,               \* trail.py run_agent: position and locals
  tasks,             \* per task of one event loop, its retry sequence
  loop,              \* the task the event loop is running, 0 when it is idle
  app                \* app.py run_agent: position and locals

retryVars == << max_retries_arg, retry_delay_arg, max_retries, retry_delay,
                response_content, range_next, attempt, pc, invocations,
                results, errors, waits, returns, raises >>

storeVars == << sessions, messages, appended, stamped, generated, call >>

procVars == << procs, writer >>

runVars == << run >>

taskVars == << tasks, loop >>

appVars == << app >>

vars == << retryVars, storeVars, procVars, runVars, taskVars, appVars >>

(***************************************************************************)
(* handle_user_message (app.py lines 241-269)                              *)
(***************************************************************************)
InitRetry ==
  /\ max_retries_arg \in { None } \cup { Some(n) : n \in MaxRetriesArgs }
  /\ retry_delay_arg \in { None } \cup { Some(d) : d \in RetryDelayArgs }
  /\ max_retries = 0
  /\ retry_delay = 0
  /\ response_content = ""
  /\ range_next = 0
  /\ attempt = 0
  /\ pc = "entry"
  /\ invocations = 0
  /\ results = << >>
  /\ errors = << >>
  /\ waits = << >>
  /\ returns = << >>
  /\ raises = << >>

\* variant: at least one attempt is made
handle_user_message_atleastone ==
  /\ pc = "entry"
  /\ UNCHANGED << storeVars, procVars, runVars, taskVars, appVars >>
  /\ max_retries' = IF max_retries_arg = None THEN MAX_RETRIES ELSE Max(max_retries_arg[1], 1)
  /\ retry_delay' = IF retry_delay_arg = None THEN RETRY_DELAY ELSE retry_delay_arg[1]
  /\ response_content' = ""
  /\ range_next' = 0
  /\ pc' = "for"
  /\ UNCHANGED << results, max_retries_arg, retry_delay_arg, attempt, invocations,
                  errors, waits, returns, raises >>

\* lines 242-244: defaults from CONFIG, response_content = ""
handle_user_message ==
  /\ pc = "entry"
  /\ UNCHANGED << storeVars, procVars, runVars, taskVars, appVars >>
  /\ max_retries' = IF max_retries_arg = None THEN MAX_RETRIES ELSE max_retries_arg[1]
  /\ retry_delay' = IF retry_delay_arg = None THEN RETRY_DELAY ELSE retry_delay_arg[1]
  /\ response_content' = ""
  /\ range_next' = 0
  /\ pc' = "for"
  /\ UNCHANGED << results, max_retries_arg, retry_delay_arg, attempt, invocations,
                  errors, waits, returns, raises >>

\* line 245: for attempt in range(max_retries), one more iteration
ForAttempt ==
  /\ pc = "for"
  /\ UNCHANGED << storeVars, procVars, runVars, taskVars, appVars >>
  /\ range_next < max_retries
  /\ attempt' = range_next
  /\ range_next' = range_next + 1
  /\ pc' = "try"
  /\ UNCHANGED << results, max_retries_arg, retry_delay_arg, max_retries, retry_delay,
                  response_content, invocations, errors, waits, returns, raises >>

\* line 269: the range is exhausted, return response_content
ReturnAfterLoop ==
  /\ pc = "for"
  /\ UNCHANGED << storeVars, procVars, runVars, taskVars, appVars >>
  /\ ~(range_next < max_retries)
  /\ returns' = Append(returns, response_content)
  /\ pc' = "done"
  /\ UNCHANGED << results, max_retries_arg, retry_delay_arg, max_retries, retry_delay,
                  response_content, range_next, attempt, invocations, errors,
                  waits, raises >>

\* line 247: blender_team.aprint_response(...) is called and awaited
AwaitAprintResponse ==
  /\ pc = "try"
  /\ UNCHANGED << storeVars, procVars, runVars, taskVars, appVars >>
  /\ invocations' = invocations + 1
  /\ pc' = "await_call"
  /\ UNCHANGED << results, max_retries_arg, retry_delay_arg, max_retries, retry_delay,
                  response_content, range_next, attempt, errors, waits,
                  returns, raises >>

\* line 247: the awaited call returns r, assigned to response_content
AprintResponseReturns ==
  /\ pc = "await_call"
  /\ UNCHANGED << storeVars, procVars, runVars, taskVars, appVars >>
  /\ \E r \in Responses :
       /\ results' = Append(results, r)
       /\ response_content' = r
  /\ pc' = "return"
  /\ UNCHANGED << max_retries_arg, retry_delay_arg, max_retries, retry_delay,
                  range_next, attempt, invocations, errors, waits, returns,
                  raises >>

\* line 248: return response_content
ReturnResponse ==
  /\ pc = "return"
  /\ UNCHANGED << storeVars, procVars, runVars, taskVars, appVars >>
  /\ returns' = Append(returns, response_content)
  /\ pc' = "done"
  /\ UNCHANGED << max_retries_arg, retry_delay_arg, max_retries, retry_delay,
                  response_content, range_next, attempt, invocations, results,
                  errors, waits, raises >>

\* the exception object raised by call number n
Raised(f, n) == [kind |-> f.kind, msg |-> f.msg, id |-> n]

\* the handler sleeps for w: await asyncio.sleep(wait)
Sleep(e, w) ==
  /\ errors' = Append(errors, e)
  /\ waits' = Append(waits, w)
  /\ pc' = "await_sleep"
  /\ UNCHANGED << raises >>

\* variant: raises the exception of the first attempt
Reraise_first(e) ==
  /\ errors' = Append(errors, e)
  /\ raises' = Append(raises, Head(Append(errors, e)))
  /\ pc' = "done"
  /\ UNCHANGED << waits >>

\* the handler re-raises the exception it caught: raise
Reraise(e) ==
  /\ errors' = Append(errors, e)
  /\ raises' = Append(raises, e)
  /\ pc' = "done"
  /\ UNCHANGED << waits >>

\* lines 249-252: except ModelRateLimitError
ExceptModelRateLimitError ==
  /\ pc = "await_call"
  /\ UNCHANGED << storeVars, procVars, runVars, taskVars, appVars >>
  /\ \E f \in Failures :
       /\ ExceptClause(f.kind) = "e_rate"
       /\ LET e == Raised(f, invocations)
          IN  IF AttemptsRemain(attempt, max_retries)
              THEN Sleep(e, BackoffWait(retry_delay, attempt))
              ELSE Reraise(e)
  /\ UNCHANGED << results, max_retries_arg, retry_delay_arg, max_retries, retry_delay,
                  response_content, range_next, attempt, invocations, returns >>

\* lines 253-263: except ModelProviderError
ExceptModelProviderError ==
  /\ pc = "await_call"
  /\ UNCHANGED << storeVars, procVars, runVars, taskVars, appVars >>
  /\ \E f \in Failures :
       /\ ExceptClause(f.kind) = "e_prov"
       /\ LET e == Raised(f, invocations)
          IN  IF is_rl(f.msg) /\ AttemptsRemain(attempt, max_retries)
              THEN Sleep(e, ProviderWait(f.msg, retry_delay, attempt))
              ELSE Reraise(e)
  /\ UNCHANGED << results, max_retries_arg, retry_delay_arg, max_retries, retry_delay,
                  response_content, range_next, attempt, invocations, returns >>

\* variant: an unexpected error is never retried
ExceptException_noretry ==
  /\ pc = "await_call"
  /\ UNCHANGED << storeVars, procVars, runVars, taskVars, appVars >>
  /\ \E f \in Failures :
       /\ ExceptClause(f.kind) = "e_gen"
       /\ Reraise(Raised(f, invocations))
  /\ UNCHANGED << results, max_retries_arg, retry_delay_arg, max_retries, retry_delay,
                  response_content, range_next, attempt, invocations, returns >>

\* lines 264-268: except Exception
ExceptException ==
  /\ pc = "await_call"
  /\ UNCHANGED << storeVars, procVars, runVars, taskVars, appVars >>
  /\ \E f \in Failures :
       /\ ExceptClause(f.kind) = "e_gen"
       /\ LET e == Raised(f, invocations)
          IN  IF AttemptsRemain(attempt, max_retries)
              THEN Sleep(e, BackoffWait(retry_delay, attempt))
              ELSE Reraise(e)
  /\ UNCHANGED << results, max_retries_arg, retry_delay_arg, max_retries, retry_delay,
                  response_content, range_next, attempt, invocations, returns >>

\* asyncio.sleep(wait) completes; the loop continues
SleepDone ==
  /\ pc = "await_sleep"
  /\ UNCHANGED << storeVars, procVars, runVars, taskVars, appVars >>
  /\ pc' = "for"
  /\ UNCHANGED << results, max_retries_arg, retry_delay_arg, max_retries, retry_delay,
                  response_content, range_next, attempt, invocations, errors,
                  waits, returns, raises >>

(***************************************************************************)
(* Processes sharing the database file, and run_agent of trail.py          *)
(***************************************************************************)
\* the processes that open the database file
Procs == { 1, 2 }

\* a process outside add_message
IdleProc == [pc |-> "idle", session_id |-> None, now |-> None, role |-> "",
             content |-> "", message_id |-> 0, mono |-> TRUE]

\* run_agent has not been called
IdleRun == [pc |-> "not_started", arg |-> None, session_id |-> None,
            message |-> None, recent |-> << >>, attempt |-> 0, wait |-> 0,
            error |-> None, port |-> None, answer |-> None,
            connected |-> FALSE, task |-> 0, input |-> None]

(***************************************************************************)
(* ChatHistory (trail.py lines 38-176)                                     *)
(***************************************************************************)
\* the connections a call has opened and not closed when it returns or
\* raises: sqlite3.connect(self.db_path) succeeded, conn.close() was reached
ConnectionsLeft(connected, closed) ==
  (IF connected THEN 1 ELSE 0) - (IF connected /\ closed THEN 1 ELSE 0)

\* the tables after _init_db on a new database file
InitStore ==
  /\ sessions = << >>
  /\ messages = << >>
  /\ appended = [s \in SessionIdArgs |-> 0]
  /\ stamped = << >>
  /\ generated = {}
  /\ call = [op |-> "none", arg |-> None, ok |-> TRUE, value |-> << >>,
             rows |-> << >>, note |-> None,
             open |-> 0]

\* a row of table sessions has this PRIMARY KEY
SessionExists(session_id) ==
  \E i \in 1..Len(sessions) : sessions[i].session_id = session_id

\* variant: INSERT OR REPLACE, an existing row is replaced by the new one
CreateSession_replace(sid_arg, description, t_id, t_now) ==
  LET session_id == IF sid_arg = None THEN strftime(t_id) ELSE sid_arg[1]
      now == Iso[t_now]
      row == [session_id |-> session_id, created_at |-> now,
              last_updated |-> now, description |-> description]
  IN  /\ sessions' = IF SessionExists(session_id)
                     THEN [i \in 1..Len(sessions) |->
                             IF sessions[i].session_id = session_id
                             THEN row ELSE sessions[i]]
                     ELSE Append(sessions, row)
      /\ generated' = IF sid_arg = None THEN generated \cup { session_id }
                      ELSE generated
      /\ call' = [op |-> "create_session", arg |-> sid_arg, ok |-> TRUE,
                  value |-> << session_id >>, rows |-> << >>,
                  note |-> IF sid_arg = None /\ session_id \in generated
                           THEN Some(session_id) ELSE None,
                  open |-> ConnectionsLeft(TRUE, TRUE)]
      /\ UNCHANGED << messages, appended, stamped >>

\* lines 76-93: create_session(session_id=None, description=None).  The
\* INSERT raises sqlite3.IntegrityError when the PRIMARY KEY exists; nothing
\* is committed then.  call.note names a generated id that an earlier call
\* without an explicit id had generated already.
CreateSession(sid_arg, description, t_id, t_now) ==
  LET session_id == IF sid_arg = None THEN strftime(t_id) ELSE sid_arg[1]
      now == Iso[t_now]
      repeated == IF sid_arg = None /\ session_id \in generated
                  THEN Some(session_id) ELSE None
  IN  /\ IF SessionExists(session_id)
         THEN /\ call' = [op |-> "create_session", arg |-> sid_arg, ok |-> FALSE,
                          value |-> << >>, rows |-> << >>, note |-> repeated,
                          open |-> ConnectionsLeft(TRUE, FALSE)]
              /\ UNCHANGED sessions
         ELSE /\ sessions' = Append(sessions,
                   [session_id |-> session_id, created_at |-> now,
                    last_updated |-> now, description |-> description])
              /\ call' = [op |-> "create_session", arg |-> sid_arg, ok |-> TRUE,
                          value |-> << session_id >>, rows |-> << >>,
                          note |-> repeated,
                          open |-> ConnectionsLeft(TRUE, TRUE)]
      /\ generated' = IF sid_arg = None THEN generated \cup { session_id }
                      ELSE generated
      /\ UNCHANGED << messages, appended, stamped >>

create_session ==
  \E sid_arg \in { None } \cup { Some(i) : i \in ExplicitIds },
     description \in Descriptions,
     t_id \in ClockReadings, t_now \in ClockReadings :
    /\ CreateSession(sid_arg, description, t_id, t_now)
    /\ UNCHANGED << retryVars, procVars, runVars, taskVars, appVars >>

\* the last call was get_recent_sessions, it ranked every session, and it
\* ranked this session last
RankedLast(session_id) ==
  /\ call.op = "get_recent_sessions"
  /\ Len(call.rows) = Len(sessions)
  /\ Len(call.rows) >= 1
  /\ sessions[call.rows[Len(call.rows)]].session_id = session_id

\* variant: the UPDATE is missing, last_updated keeps its value
AddMessage_noupdate(session_id, role, content, t) ==
  LET now == Iso[t]
  IN  /\ Len(messages) < MaxMessages
      /\ UNCHANGED sessions
      /\ messages' = Append(messages,
           [message_id |-> Len(messages) + 1, session_id |-> session_id,
            timestamp |-> now, role |-> role, content |-> content])
      /\ appended' = [appended EXCEPT ![session_id] = @ + 1]
      /\ stamped' = Append(stamped, t)
      /\ call' = [op |-> "add_message", arg |-> session_id, ok |-> TRUE,
                  value |-> << >>, rows |-> << >>,
                  note |-> IF RankedLast(session_id) THEN Some(session_id) ELSE None,
                  open |-> ConnectionsLeft(TRUE, TRUE)]
      /\ UNCHANGED generated

\* variant: the message replaces the newest row instead of being appended
AddMessage_replace(session_id, role, content, t) ==
  LET now == Iso[t]
      row == [message_id |-> Max(Len(messages), 1), session_id |-> session_id,
              timestamp |-> now, role |-> role, content |-> content]
  IN  /\ Len(messages) < MaxMessages
      /\ sessions' = [i \in 1..Len(sessions) |->
                        IF sessions[i].session_id = session_id
                        THEN [sessions[i] EXCEPT !.last_updated = now]
                        ELSE sessions[i]]
      /\ messages' = IF Len(messages) = 0 THEN << row >>
                     ELSE [messages EXCEPT ![Len(messages)] = row]
      /\ appended' = [appended EXCEPT ![session_id] = @ + 1]
      /\ stamped' = IF Len(messages) = 0 THEN << t >>
                    ELSE [stamped EXCEPT ![Len(messages)] = t]
      /\ call' = [op |-> "add_message", arg |-> session_id, ok |-> TRUE,
                  value |-> << >>, rows |-> << >>,
                  note |-> IF RankedLast(session_id) THEN Some(session_id) ELSE None,
                  open |-> ConnectionsLeft(TRUE, TRUE)]
      /\ UNCHANGED generated

\* variant: the UPDATE sets created_at as well
AddMessage_created(session_id, role, content, t) ==
  LET now == Iso[t]
  IN  /\ Len(messages) < MaxMessages
      /\ sessions' = [i \in 1..Len(sessions) |->
                        IF sessions[i].session_id = session_id
                        THEN [sessions[i] EXCEPT !.last_updated = now,
                                                 !.created_at = now]
                        ELSE sessions[i]]
      /\ messages' = Append(messages,
           [message_id |-> Len(messages) + 1, session_id |-> session_id,
            timestamp |-> now, role |-> role, content |-> content])
      /\ appended' = [appended EXCEPT ![session_id] = @ + 1]
      /\ stamped' = Append(stamped, t)
      /\ call' = [op |-> "add_message", arg |-> session_id, ok |-> TRUE,
                  value |-> << >>, rows |-> << >>,
                  note |-> IF RankedLast(session_id) THEN Some(session_id) ELSE None,
                  open |-> ConnectionsLeft(TRUE, TRUE)]
      /\ UNCHANGED generated

\* variant: the UPDATE has no WHERE clause, every session is refreshed
AddMessage_touchall(session_id, role, content, t) ==
  LET now == Iso[t]
  IN  /\ Len(messages) < MaxMessages
      /\ sessions' = [i \in 1..Len(sessions) |->
                        [sessions[i] EXCEPT !.last_updated = now]]
      /\ messages' = Append(messages,
           [message_id |-> Len(messages) + 1, session_id |-> session_id,
            timestamp |-> now, role |-> role, content |-> content])
      /\ appended' = [appended EXCEPT ![session_id] = @ + 1]
      /\ stamped' = Append(stamped, t)
      /\ call' = [op |-> "add_message", arg |-> session_id, ok |-> TRUE,
                  value |-> << >>, rows |-> << >>,
                  note |-> IF RankedLast(session_id) THEN Some(session_id) ELSE None,
                  open |-> ConnectionsLeft(TRUE, TRUE)]
      /\ UNCHANGED generated

\* lines 95-115: add_message(session_id, role, content): UPDATE of the
\* session's last_updated (no row when the id is unknown), INSERT of the
\* message (the FOREIGN KEY is not enforced: PRAGMA foreign_keys is off),
\* commit.  call.note names the session when the call before this one was a
\* get_recent_sessions that ranked it last.
AddMessage(session_id, role, content, t) ==
  LET now == Iso[t]
  IN  /\ Len(messages) < MaxMessages
      /\ sessions' = [i \in 1..Len(sessions) |->
                        IF sessions[i].session_id = session_id
                        THEN [sessions[i] EXCEPT !.last_updated = now]
                        ELSE sessions[i]]
      /\ messages' = Append(messages,
           [message_id |-> Len(messages) + 1, session_id |-> session_id,
            timestamp |-> now, role |-> role, content |-> content])
      /\ appended' = [appended EXCEPT ![session_id] = @ + 1]
      /\ stamped' = Append(stamped, t)
      /\ call' = [op |-> "add_message", arg |-> session_id, ok |-> TRUE,
                  value |-> << >>, rows |-> << >>,
                  note |-> IF RankedLast(session_id) THEN Some(session_id) ELSE None,
                  open |-> ConnectionsLeft(TRUE, TRUE)]
      /\ UNCHANGED generated

add_message ==
  \E session_id \in SessionIdArgs, role \in Roles, content \in Contents,
     t \in ClockReadings :
    /\ AddMessage(session_id, role, content, t)
    /\ UNCHANGED << retryVars, procVars, runVars, taskVars, appVars >>

\* lines 97-114: connect or execute raises sqlite3.OperationalError (file
\* unreachable or locked) before the commit; nothing is stored, and
\* conn.close() of line 115 is not reached.
AddMessageRaises(session_id) ==
  /\ \E connected \in BOOLEAN :
       call' = [op |-> "add_message", arg |-> session_id, ok |-> FALSE,
                value |-> << >>, rows |-> << >>, note |-> None,
                open |-> ConnectionsLeft(connected, FALSE)]
  /\ UNCHANGED << sessions, messages, appended, stamped, generated >>

add_message_raises ==
  \E session_id \in SessionIdArgs :
    /\ AddMessageRaises(session_id)
    /\ UNCHANGED << retryVars, procVars, runVars, taskVars, appVars >>

\* WHERE session_id = ?: the rowids of the session's messages
MessagesOf(session_id) ==
  { i \in 1..Len(messages) : messages[i].session_id = session_id }

\* variant: the ORDER BY clause is missing, rows come in rowid order
RECURSIVE OrderByTimestamp_rowid(_)
OrderByTimestamp_rowid(rows) ==
  IF rows = {} THEN { << >> }
  ELSE LET m == CHOOSE r \in rows : \A q \in rows : r <= q
       IN  { << m >> \o rest : rest \in OrderByTimestamp_rowid(rows \ { m }) }

\* ORDER BY timestamp: the orders in which the rows can be returned.  A row
\* is next when no remaining row has a smaller timestamp; SQL leaves the
\* order of rows with equal timestamps unspecified.
RECURSIVE OrderByTimestamp(_)
OrderByTimestamp(rows) ==
  IF rows = {} THEN { << >> }
  ELSE UNION { { << m >> \o rest : rest \in OrderByTimestamp(rows \ { m }) } :
               m \in { r \in rows :
                         \A q \in rows :
                           ~Less[messages[q].timestamp, messages[r].timestamp] } }

\* lines 117-130: get_session_messages(session_id)
GetSessionMessages(session_id) ==
  \E fetched \in OrderByTimestamp(MessagesOf(session_id)) :
    /\ call' = [op |-> "get_session_messages", arg |-> session_id, ok |-> TRUE,
                value |-> [k \in 1..Len(fetched) |->
                             [role |-> messages[fetched[k]].role,
                              content |-> messages[fetched[k]].content]],
                rows |-> fetched, note |-> None,
                open |-> ConnectionsLeft(TRUE, TRUE)]
    /\ UNCHANGED << sessions, messages, appended, stamped, generated >>

get_session_messages ==
  \E session_id \in SessionIdArgs :
    /\ GetSessionMessages(session_id)
    /\ UNCHANGED << retryVars, procVars, runVars, taskVars, appVars >>

\* variant: ORDER BY last_updated without DESC
RECURSIVE OrderByLastUpdatedDesc_asc(_)
OrderByLastUpdatedDesc_asc(rows) ==
  IF rows = {} THEN { << >> }
  ELSE UNION { { << m >> \o rest : rest \in OrderByLastUpdatedDesc_asc(rows \ { m }) } :
               m \in { r \in rows :
                         \A q \in rows :
                           ~Less[sessions[q].last_updated,
                                     sessions[r].last_updated] } }

\* ORDER BY last_updated DESC: a row is next when no remaining row has a
\* greater last_updated; the order of equal rows is unspecified
RECURSIVE OrderByLastUpdatedDesc(_)
OrderByLastUpdatedDesc(rows) ==
  IF rows = {} THEN { << >> }
  ELSE UNION { { << m >> \o rest : rest \in OrderByLastUpdatedDesc(rows \ { m }) } :
               m \in { r \in rows :
                         \A q \in rows :
                           ~Less[sessions[r].last_updated,
                                     sessions[q].last_updated] } }

\* LIMIT n: the first n rows; a negative n is no limit
Limit(seq, n) ==
  IF n < 0 \/ n >= Len(seq) THEN seq ELSE SubSeq(seq, 1, n)

\* lines 132-145: get_recent_sessions(limit=5).  call.note carries the note
\* of a successful add_message that was the call before this one.
GetRecentSessions(limit) ==
  \E ranked \in OrderByLastUpdatedDesc(1..Len(sessions)) :
    LET fetched == Limit(ranked, limit)
    IN  /\ call' = [op |-> "get_recent_sessions", arg |-> Some(limit), ok |-> TRUE,
                    value |-> [k \in 1..Len(fetched) |->
                                 [session_id |-> sessions[fetched[k]].session_id,
                                  created_at |-> sessions[fetched[k]].created_at,
                                  description |-> sessions[fetched[k]].description]],
                    rows |-> fetched,
                    note |-> IF call.op = "add_message" /\ call.ok
                             THEN call.note ELSE None,
                    open |-> ConnectionsLeft(TRUE, TRUE)]
        /\ UNCHANGED << sessions, messages, appended, stamped, generated >>

get_recent_sessions ==
  \E limit \in Limits :
    /\ GetRecentSessions(limit)
    /\ UNCHANGED << retryVars, procVars, runVars, taskVars, appVars >>

\* variant: COUNT(*) has no WHERE clause, all messages are counted
GetSessionSummary_total(session_id) ==
  /\ call' = [op |-> "get_session_summary", arg |-> session_id, ok |-> TRUE,
              value |-> IF SessionExists(session_id)
                        THEN LET i == CHOOSE k \in 1..Len(sessions) :
                                        sessions[k].session_id = session_id
                             IN  Some([session_id |-> session_id,
                                       created_at |-> sessions[i].created_at,
                                       last_updated |-> sessions[i].last_updated,
                                       description |-> sessions[i].description,
                                       message_count |-> Len(messages)])
                        ELSE None,
              rows |-> << >>, note |-> None,
              open |-> ConnectionsLeft(TRUE, TRUE)]
  /\ UNCHANGED << sessions, messages, appended, stamped, generated >>

\* lines 147-176: get_session_summary(session_id): None without a sessions
\* row, else the row and COUNT(*) of the messages with this session_id
GetSessionSummary(session_id) ==
  /\ call' = [op |-> "get_session_summary", arg |-> session_id, ok |-> TRUE,
              value |-> IF SessionExists(session_id)
                        THEN LET i == CHOOSE k \in 1..Len(sessions) :
                                        sessions[k].session_id = session_id
                             IN  Some([session_id |-> session_id,
                                       created_at |-> sessions[i].created_at,
                                       last_updated |-> sessions[i].last_updated,
                                       description |-> sessions[i].description,
                                       message_count |->
                                         Cardinality(MessagesOf(session_id))])
                        ELSE None,
              rows |-> << >>, note |-> None,
              open |-> ConnectionsLeft(TRUE, TRUE)]
  /\ UNCHANGED << sessions, messages, appended, stamped, generated >>

get_session_summary ==
  \E session_id \in SessionIdArgs :
    /\ GetSessionSummary(session_id)
    /\ UNCHANGED << retryVars, procVars, runVars, taskVars, appVars >>

(***************************************************************************)
(* add_message statement by statement, in processes sharing the database  *)
(* file (trail.py lines 95-115).  sqlite3.connect opens the connection    *)
(* with implicit transactions: the UPDATE begins one, the INSERT joins    *)
(* it, and nothing reaches the file before conn.commit().  SQLite admits   *)
(* one writing transaction at a time.                                      *)
(***************************************************************************)
\* the calls that have begun and not ended
InFlight == { p \in Procs : procs[p].pc # "idle" }

\* the reading t is not lower than any reading taken before it: those of
\* the stored rows and those of the calls in progress
NotBefore(t) ==
  /\ \A k \in 1..Len(stamped) : Micros(stamped[k]) <= Micros(t)
  /\ \A q \in InFlight : Micros(procs[q].now[1]) <= Micros(t)
  /\ \A i \in 1..Len(sessions) : ~Less[Iso[t], sessions[i].created_at]

\* lines 97-100: connect, cursor, now = datetime.now().isoformat(); mono
\* records whether the clock had not gone back at this reading
Connect(p) ==
  \E session_id \in SessionIdArgs, role \in Roles, content \in Contents,
     t \in ClockReadings :
    /\ procs[p].pc = "idle"
    /\ Len(messages) + Cardinality(InFlight) < MaxMessages
    /\ procs' = [procs EXCEPT ![p] =
                   [pc |-> "connected", session_id |-> Some(session_id),
                    now |-> Some(t), role |-> role, content |-> content,
                    message_id |-> 0, mono |-> NotBefore(t)]]
    /\ UNCHANGED << writer, storeVars, retryVars, runVars, taskVars, appVars >>

\* variant: every connection may write, whoever holds the lock
CanWrite_always(p) == p \in Procs

\* the write lock is free or held by this process
CanWrite(p) == writer \in { 0, p }

\* variant: the connection is in autocommit mode, the UPDATE reaches the
\* file at once
ExecuteUpdate_autocommit(p) ==
  /\ procs[p].pc = "connected"
  /\ CanWrite(p)
  /\ writer' = p
  /\ procs' = [procs EXCEPT ![p].pc = "updated"]
  /\ sessions' = [i \in 1..Len(sessions) |->
                    IF sessions[i].session_id = procs[p].session_id[1]
                    THEN [sessions[i] EXCEPT
                            !.last_updated = Iso[procs[p].now[1]]]
                    ELSE sessions[i]]
  /\ UNCHANGED << messages, appended, stamped, generated, call,
                  retryVars, runVars, taskVars, appVars >>

\* lines 103-106: the UPDATE takes the write lock (it waits while another
\* process holds it) and changes the row inside the transaction
ExecuteUpdate(p) ==
  /\ procs[p].pc = "connected"
  /\ CanWrite(p)
  /\ writer' = p
  /\ procs' = [procs EXCEPT ![p].pc = "updated"]
  /\ UNCHANGED << storeVars, retryVars, runVars, taskVars, appVars >>

\* lines 109-112: the INSERT takes the next rowid inside the transaction
ExecuteInsert(p) ==
  /\ procs[p].pc = "updated"
  /\ procs' = [procs EXCEPT ![p].pc = "inserted",
                            ![p].message_id = Len(messages) + 1]
  /\ UNCHANGED << writer, storeVars, retryVars, runVars, taskVars, appVars >>

\* lines 114-115: conn.commit() writes the transaction to the file, the
\* session row and the message row at its rowid, and releases the lock
Commit(p) ==
  LET session_id == procs[p].session_id[1]
      t == procs[p].now[1]
      id == procs[p].message_id
      row == [message_id |-> id, session_id |-> session_id,
              timestamp |-> Iso[t], role |-> procs[p].role,
              content |-> procs[p].content]
  IN  /\ procs[p].pc = "inserted"
      /\ sessions' = [i \in 1..Len(sessions) |->
                        IF sessions[i].session_id = session_id
                        THEN [sessions[i] EXCEPT !.last_updated = Iso[t]]
                        ELSE sessions[i]]
      /\ messages' = [i \in 1..Max(Len(messages), id) |->
                        IF i = id THEN row ELSE messages[i]]
      /\ stamped' = [i \in 1..Max(Len(stamped), id) |->
                       IF i = id THEN t ELSE stamped[i]]
      /\ appended' = [appended EXCEPT ![session_id] = @ + 1]
      /\ call' = [op |-> "add_message", arg |-> session_id, ok |-> TRUE,
                  value |-> << >>, rows |-> << >>, note |-> None,
                  open |-> ConnectionsLeft(TRUE, TRUE)]
      /\ writer' = IF writer = p THEN 0 ELSE writer
      /\ procs' = [procs EXCEPT ![p] = IdleProc]
      /\ UNCHANGED << generated, retryVars, runVars, taskVars, appVars >>

\* a statement raises sqlite3.OperationalError (the lock was not released in
\* time, the file cannot be written) or the process stops: the connection
\* goes away without a commit and SQLite rolls the transaction back.
\* call.value names the position reached.
Stop(p) ==
  /\ procs[p].pc # "idle"
  /\ \E closed \in BOOLEAN :
       call' = [op |-> "add_message", arg |-> procs[p].session_id[1], ok |-> FALSE,
              value |-> << procs[p].pc >>, rows |-> << >>, note |-> None,
                open |-> ConnectionsLeft(TRUE, closed)]
  /\ writer' = IF writer = p THEN 0 ELSE writer
  /\ procs' = [procs EXCEPT ![p] = IdleProc]
  /\ UNCHANGED << sessions, messages, appended, stamped, generated,
                  retryVars, runVars, taskVars, appVars >>

\* lines 76-93 in a process: the INSERT of create_session needs the write
\* lock as well; the processes pass explicit ids
LockedCreateSession ==
  \E session_id \in ExplicitIds, description \in Descriptions,
     t \in ClockReadings :
    /\ writer = 0
    /\ CreateSession(Some(session_id), description, t, t)
    /\ UNCHANGED << retryVars, procVars, runVars, taskVars, appVars >>

\* lines 117-130 in a process: the query reads what has been committed
CommittedMessages ==
  \E session_id \in SessionIdArgs :
    /\ GetSessionMessages(session_id)
    /\ UNCHANGED << retryVars, procVars, runVars, taskVars, appVars >>

(***************************************************************************)
(* run_agent of trail.py (lines 458-647), one interactive run at a time    *)
(***************************************************************************)
\* max_retries and retry_delay of the two retry loops of run_agent
\* (lines 566-567, 619-620)
RUN_MAX_RETRIES == 5
RUN_RETRY_DELAY == 2

\* the arguments of run_agent
MessageArgs == { None } \cup { Some(c) : c \in Contents }
SessionArgs == { None } \cup { Some(i) : i \in SessionIdArgs }

\* the readings of datetime.now() during the runs of run_agent
RunClock == { t \in ClockReadings : t.us = 0 }

\* answers typed at "Select an option (default: 0): ", stripped
Choices == { << >>, << "0" >>, << "1" >>, << "2" >>, << "9" >>, << "x" >> }

\* answers typed at "Continue anyway? (y/n): "
Answers == { << "y" >>, << "Y" >>, << "n" >>, << >> }

\* lines typed at "You: "
\* "exit", "Quit", "refresh"
InputExit == << "e","x","i","t" >>
InputQuit == << "Q","u","i","t" >>
InputRefresh == << "r","e","f","r","e","s","h" >>
UserInputs == { InputExit, InputQuit, InputRefresh, << "c" >> }

\* the history text of a typed line: the typed line itself
ContentOf(user_input) == IF user_input = InputRefresh THEN "refresh" ELSE "c"

\* str.isdigit()
IsDigitString(str) == Len(str) > 0 /\ \A i \in 1..Len(str) : IsDigit(str[i])

\* line 480: choice and choice.isdigit() and 1 <= int(choice) <= len(recent_sessions)
ValidChoice(choice, recent_sessions) ==
  /\ IsDigitString(choice)
  /\ 1 <= IntOfDigits(choice)
  /\ IntOfDigits(choice) <= Len(recent_sessions)

\* the results of s.connect_ex(('localhost', port)): 0 when the connection
\* was made, the errno of a refused connection otherwise
ECONNREFUSED == 111
ConnectExResults == { 0, ECONNREFUSED }

\* lines 453-456: is_port_in_use
is_port_in_use(connect_ex) == connect_ex = 0

\* "429 Too Many Requests"
S429TooManyRequests == MsgTooMany \o << " ","R","e","q","u","e","s","t","s" >>

\* the exceptions agent.aprint_response can raise in run_agent: class,
\* status_code attribute (None when the class has none) and str(e)
RunErrors ==
  { [kind |-> "ModelRateLimitError", status_code |-> Some(429), msg |-> MsgTooMany],
    [kind |-> "ModelProviderError",  status_code |-> Some(429), msg |-> MsgSafety],
    [kind |-> "Exception",           status_code |-> None,      msg |-> S429TooManyRequests],
    [kind |-> "ModelProviderError",  status_code |-> Some(502), msg |-> MsgTimeout],
    [kind |-> "Exception",           status_code |-> None,      msg |-> MsgTooMany] }

\* the sqlite3.OperationalError of add_message, caught in the retried block
RunStorageError ==
  [kind |-> "OperationalError", status_code |-> None, msg |-> MsgLocked]

\* asyncio.CancelledError, thrown into the coroutine at the await it is
\* suspended in
CancelledError ==
  [kind |-> "CancelledError", status_code |-> None, msg |-> << >>]

\* lines 576-578, 629-631: the test of the handler
IsRateLimit429(e) ==
  \/ e.kind = "ModelRateLimitError"
  \/ (e.status_code # None /\ e.status_code[1] = 429)
  \/ Contains(e.msg, S429TooManyRequests)

\* variant: a session id the caller passes is ignored
run_agent_reselect ==
  \E message \in MessageArgs, session_id \in SessionArgs :
    /\ run.pc \in { "not_started", "returned", "raised" }
    /\ run' = [IdleRun EXCEPT !.pc = "list", !.arg = session_id,
                              !.message = message]
    /\ UNCHANGED << storeVars, retryVars, procVars, taskVars, appVars >>

\* lines 458-464: run_agent(message=None, session_id=None); a session id the
\* caller passes is used as it is
run_agent ==
  \E message \in MessageArgs, session_id \in SessionArgs :
    /\ run.pc \in { "not_started", "returned", "raised" }
    /\ run' = [IdleRun EXCEPT !.pc = IF session_id = None THEN "list" ELSE "port",
                              !.arg = session_id, !.session_id = session_id,
                              !.message = message]
    /\ UNCHANGED << storeVars, retryVars, procVars, taskVars, appVars >>

\* run_agent returns (return, or the end of the function body)
Returned(r) ==
  [r EXCEPT !.pc = "returned", !.message = None, !.recent = << >>,
            !.attempt = 0, !.wait = 0, !.error = None, !.task = 0]

\* lines 465-467: recent_sessions = chat_history.get_recent_sessions()
ListRecentSessions ==
  /\ run.pc = "list"
  /\ GetRecentSessions(RECENT_LIMIT)
  /\ run' = [run EXCEPT
               !.recent = [k \in 1..Len(call'.value) |-> call'.value[k].session_id],
               !.pc = IF Len(call'.value) > 0 THEN "choose" ELSE "create"]
  /\ UNCHANGED << retryVars, procVars, taskVars, appVars >>

\* lines 478-483: the choice typed selects an existing session or not
ChooseSession ==
  \E choice \in Choices :
    /\ run.pc = "choose"
    /\ run' = IF ValidChoice(choice, run.recent)
              THEN [run EXCEPT !.session_id = Some(run.recent[IntOfDigits(choice)]),
                               !.recent = << >>, !.pc = "port"]
              ELSE [run EXCEPT !.recent = << >>, !.pc = "create"]
    /\ UNCHANGED << storeVars, retryVars, procVars, taskVars, appVars >>

\* lines 484-492: session_id = chat_history.create_session(description=...);
\* the IntegrityError of an id generated twice leaves run_agent
CreateNewSession ==
  \E description \in Descriptions, t_id \in RunClock, t_now \in RunClock :
    /\ run.pc = "create"
    /\ CreateSession(None, description, t_id, t_now)
    /\ run' = IF call'.ok
              THEN [run EXCEPT !.session_id = Some(call'.value[1]), !.pc = "port"]
              ELSE Returned(run)
    /\ UNCHANGED << retryVars, procVars, taskVars, appVars >>

\* variant: the warning is printed and the run goes on without asking
PortCheck_noprompt ==
  \E connect_ex \in ConnectExResults :
    /\ run.pc = "port"
    /\ run' = [run EXCEPT !.port = Some(connect_ex), !.pc = "path"]
    /\ UNCHANGED << storeVars, retryVars, procVars, taskVars, appVars >>

\* lines 494-506: is_port_in_use(9876); when it is not, the answer typed at
\* "Continue anyway? (y/n): " decides
PortCheck ==
  \E connect_ex \in ConnectExResults, response \in Answers :
    /\ run.pc = "port"
    /\ run' = IF is_port_in_use(connect_ex)
              THEN [run EXCEPT !.port = Some(connect_ex), !.pc = "path"]
              ELSE IF Lower(response) # << "y" >>
                   THEN [Returned(run) EXCEPT !.port = Some(connect_ex),
                                              !.answer = Some(response)]
                   ELSE [run EXCEPT !.port = Some(connect_ex),
                                    !.answer = Some(response), !.pc = "path"]
    /\ UNCHANGED << storeVars, retryVars, procVars, taskVars, appVars >>

\* lines 509-517: the path of uvx.exe exists, or the path typed does
PathCheck ==
  \E exists \in BOOLEAN, typed_exists \in BOOLEAN :
    /\ run.pc = "path"
    /\ run' = IF exists \/ typed_exists
              THEN [run EXCEPT !.pc = "connect"]
              ELSE Returned(run)
    /\ UNCHANGED << storeVars, retryVars, procVars, taskVars, appVars >>

\* lines 524-529, 644-647: stdio_client, ClientSession or create_blender_agent
\* raises; run_agent prints the error and returns
ConnectFails ==
  /\ run.pc = "connect"
  /\ run' = Returned(run)
  /\ UNCHANGED << storeVars, retryVars, procVars, taskVars, appVars >>

\* lines 525-529, 410-423: the MCP server is started and connected to, and
\* create_blender_agent loads the previous messages of the session as context
CreateBlenderAgent ==
  /\ run.pc = "connect"
  /\ GetSessionMessages(run.session_id[1])
  /\ run' = [run EXCEPT !.pc = "scene", !.connected = TRUE]
  /\ UNCHANGED << retryVars, procVars, taskVars, appVars >>

\* the position after the scene context: line 560, if message
AfterScene == IF run.message # None THEN "initial" ELSE "chat"

\* lines 537-557: the scene information, when there is one, is stored as a
\* system message; an exception is printed and the run goes on
SceneContext ==
  /\ run.pc = "scene"
  /\ \/ UNCHANGED storeVars
     \/ \E t \in RunClock : AddMessage(run.session_id[1], "system", "scene", t)
     \/ AddMessageRaises(run.session_id[1])
  /\ run' = [run EXCEPT !.pc = AfterScene]
  /\ UNCHANGED << retryVars, procVars, taskVars, appVars >>

\* variant: the model is called before the initial message is stored
InitialMessage_unsaved ==
  /\ run.pc = "initial"
  /\ run' = [run EXCEPT !.pc = "respond", !.attempt = 0]
  /\ UNCHANGED << storeVars, retryVars, procVars, taskVars, appVars >>

\* lines 560-563: the initial message is stored before the model is called;
\* an error of add_message leaves by the handler of line 644.  task is the
\* rowid of the stored message.
InitialMessage ==
  /\ run.pc = "initial"
  /\ \/ /\ \E t \in RunClock :
             AddMessage(run.session_id[1], "user", run.message[1], t)
        /\ run' = [run EXCEPT !.pc = "respond", !.attempt = 0,
                              !.task = Len(messages')]
     \/ /\ AddMessageRaises(run.session_id[1])
        /\ run' = Returned(run)
  /\ UNCHANGED << retryVars, procVars, taskVars, appVars >>

\* lines 570-574, 623-627: the model answers, the answer is stored and the
\* loop is left; an error of that add_message is raised inside the try block
ResponseStored ==
  /\ run.pc = "respond"
  /\ \/ /\ \E t \in RunClock :
             AddMessage(run.session_id[1], "assistant", "c", t)
        /\ run' = [run EXCEPT !.pc = "chat", !.attempt = 0]
     \/ /\ AddMessageRaises(run.session_id[1])
        /\ run' = [run EXCEPT !.pc = "except", !.error = Some(RunStorageError)]
  /\ UNCHANGED << retryVars, procVars, taskVars, appVars >>

\* lines 570, 575, 623, 628: agent.aprint_response raises; except Exception
\* as e catches it
ResponseRaises ==
  \E e \in RunErrors :
    /\ run.pc = "respond"
    /\ run' = [run EXCEPT !.pc = "except", !.error = Some(e)]
    /\ UNCHANGED << storeVars, retryVars, procVars, taskVars, appVars >>

\* lines 576-583, 629-636: a rate-limit error with attempts left: the
\* coroutine awaits asyncio.sleep(retry_delay * 2 ** attempt)
RateLimitedRetry ==
  /\ run.pc = "except"
  /\ IsRateLimit429(run.error[1])
  /\ run.attempt < RUN_MAX_RETRIES - 1
  /\ run' = [run EXCEPT !.pc = "backoff", !.error = None,
                        !.wait = RUN_RETRY_DELAY * Pow2(run.attempt)]
  /\ UNCHANGED << storeVars, retryVars, procVars, taskVars, appVars >>

\* lines 568, 583, 621, 636: the sleep is over; continue with the next
\* attempt of range(max_retries)
BackoffDone ==
  /\ run.pc = "backoff"
  /\ run' = [run EXCEPT !.pc = "respond", !.attempt = @ + 1, !.wait = 0]
  /\ UNCHANGED << storeVars, retryVars, procVars, taskVars, appVars >>

\* variant: the error leaves run_agent by the handler of line 644
ResponseFails_return ==
  /\ run.pc = "except"
  /\ ~(IsRateLimit429(run.error[1]) /\ run.attempt < RUN_MAX_RETRIES - 1)
  /\ run' = Returned(run)
  /\ UNCHANGED << storeVars, retryVars, procVars, taskVars, appVars >>

\* lines 584-586, 637-639: any other error, or a rate-limit error on the
\* last attempt: print and break
ResponseFails ==
  /\ run.pc = "except"
  /\ ~(IsRateLimit429(run.error[1]) /\ run.attempt < RUN_MAX_RETRIES - 1)
  /\ run' = [run EXCEPT !.pc = "chat", !.attempt = 0, !.error = None]
  /\ UNCHANGED << storeVars, retryVars, procVars, taskVars, appVars >>

\* variant: the cancellation is caught by except Exception as e
Cancel_caught ==
  /\ run.pc \in { "respond", "backoff" }
  /\ run' = [run EXCEPT !.pc = "except", !.wait = 0,
                        !.error = Some(CancelledError)]
  /\ UNCHANGED << storeVars, retryVars, procVars, taskVars, appVars >>

\* lines 570, 582, 575, 644: the task is cancelled while it awaits
\* agent.aprint_response or asyncio.sleep: asyncio.CancelledError is raised at
\* the await; it is a BaseException, so neither except Exception catches it
\* and it leaves run_agent
Cancel ==
  /\ run.pc \in { "respond", "backoff" }
  /\ run' = [run EXCEPT !.pc = "raised", !.wait = 0,
                        !.error = Some(CancelledError)]
  /\ UNCHANGED << storeVars, retryVars, procVars, taskVars, appVars >>

\* lines 593-599: exit or quit ends the run
ChatExit ==
  \E user_input \in UserInputs :
    /\ run.pc = "chat"
    /\ Lower(user_input) \in { InputExit, Lower(InputQuit) }
    /\ run' = [Returned(run) EXCEPT !.input = Some(user_input)]
    /\ UNCHANGED << storeVars, retryVars, procVars, taskVars, appVars >>

\* lines 601-612: refresh with scene information stores it and continues;
\* an exception continues as well
ChatRefresh ==
  /\ run.pc = "chat"
  /\ \/ \E t \in RunClock :
          AddMessage(run.session_id[1], "system", "scene", t)
     \/ UNCHANGED storeVars
  /\ UNCHANGED << run, retryVars, procVars, taskVars, appVars >>

\* lines 601-615: any other line, and refresh without scene information, is
\* stored as a user message before the model is called
ChatMessage ==
  \E user_input \in UserInputs :
    /\ run.pc = "chat"
    /\ Lower(user_input) \notin { InputExit, Lower(InputQuit) }
    /\ \/ /\ \E t \in RunClock :
               AddMessage(run.session_id[1], "user", ContentOf(user_input), t)
          /\ run' = [run EXCEPT !.pc = "respond", !.attempt = 0,
                                !.task = Len(messages'),
                                !.input = Some(user_input)]
       \/ /\ AddMessageRaises(run.session_id[1])
          /\ run' = [Returned(run) EXCEPT !.input = Some(user_input)]
    /\ UNCHANGED << retryVars, procVars, taskVars, appVars >>

(***************************************************************************)
(* Two retry sequences as tasks of one asyncio event loop                  *)
(* (app.py lines 245-268, trail.py lines 568-586)                          *)
(***************************************************************************)
Tasks == { 1, 2 }

\* a task that has been created and not run yet
NewTask == [pc |-> "ready", attempt |-> 0, woken |-> FALSE]

\* the event loop can resume the task: it has not started, or what it
\* awaits has completed
Runnable(i) ==
  \/ tasks[i].pc = "ready"
  \/ (tasks[i].pc \in { "call", "sleep" } /\ tasks[i].woken)

\* the event loop, idle, resumes a task
RunTask(i) ==
  /\ loop = 0
  /\ Runnable(i)
  /\ loop' = i
  /\ UNCHANGED << tasks, retryVars, storeVars, procVars, runVars, appVars >>

\* app.py line 247, trail.py line 570: await ...aprint_response(...); the
\* coroutine is suspended and the event loop gets the thread back
TaskCalls(i) ==
  /\ loop = i
  /\ tasks[i].pc = "ready"
  /\ tasks' = [tasks EXCEPT ![i] = [@ EXCEPT !.pc = "call", !.woken = FALSE]]
  /\ loop' = 0
  /\ UNCHANGED << retryVars, storeVars, procVars, runVars, appVars >>

\* the response or the error of the call arrives, the timer of the sleep
\* fires: the awaited future is done
Completes(i) ==
  /\ tasks[i].pc \in { "call", "sleep" }
  /\ ~tasks[i].woken
  /\ tasks' = [tasks EXCEPT ![i] = [@ EXCEPT !.woken = TRUE]]
  /\ UNCHANGED << loop, retryVars, storeVars, procVars, runVars, appVars >>

\* app.py lines 247-248, trail.py lines 570-574: the call returned
TaskCallReturns(i) ==
  /\ loop = i
  /\ tasks[i].pc = "call"
  /\ tasks[i].woken
  /\ tasks' = [tasks EXCEPT ![i] = [@ EXCEPT !.pc = "done", !.woken = FALSE]]
  /\ loop' = 0
  /\ UNCHANGED << retryVars, storeVars, procVars, runVars, appVars >>

\* variant: the delay is waited out with the thread held (time.sleep)
TaskCallRaises_blocking(i) ==
  /\ loop = i
  /\ tasks[i].pc = "call"
  /\ tasks[i].woken
  /\ IF tasks[i].attempt < MAX_RETRIES - 1
     THEN /\ tasks' = [tasks EXCEPT ![i] = [@ EXCEPT !.pc = "sleep", !.woken = FALSE]]
          /\ loop' = i
     ELSE /\ tasks' = [tasks EXCEPT ![i] = [@ EXCEPT !.pc = "done", !.woken = FALSE]]
          /\ loop' = 0
  /\ UNCHANGED << retryVars, storeVars, procVars, runVars, appVars >>

\* app.py lines 249-268, trail.py lines 575-586: the call raised; with
\* attempts left the coroutine awaits asyncio.sleep(...), which suspends it
\* and gives the thread back to the event loop; otherwise it ends
TaskCallRaises(i) ==
  /\ loop = i
  /\ tasks[i].pc = "call"
  /\ tasks[i].woken
  /\ IF tasks[i].attempt < MAX_RETRIES - 1
     THEN /\ tasks' = [tasks EXCEPT ![i] = [@ EXCEPT !.pc = "sleep", !.woken = FALSE]]
          /\ loop' = 0
     ELSE /\ tasks' = [tasks EXCEPT ![i] = [@ EXCEPT !.pc = "done", !.woken = FALSE]]
          /\ loop' = 0
  /\ UNCHANGED << retryVars, storeVars, procVars, runVars, appVars >>

\* app.py lines 245-247, trail.py lines 568-570: the sleep is over, the next
\* attempt of range(max_retries) awaits the call
TaskSleepOver(i) ==
  /\ loop = i
  /\ tasks[i].pc = "sleep"
  /\ tasks[i].woken
  /\ tasks' = [tasks EXCEPT ![i] = [@ EXCEPT !.pc = "call", !.woken = FALSE,
                                               !.attempt = @ + 1]]
  /\ loop' = 0
  /\ UNCHANGED << retryVars, storeVars, procVars, runVars, appVars >>

\* a step of task i
TaskStep(i) ==
  \/ RunTask(i)
  \/ TaskCalls(i)
  \/ TaskCallReturns(i)
  \/ TaskCallRaises(i)
  \/ TaskSleepOver(i)

(***************************************************************************)
(* run_agent of app.py (lines 286-388): the session id of the run          *)
(***************************************************************************)
\* run_agent has not been called
IdleApp == [pc |-> "not_started", session_id_arg |-> None,
            recent_sessions |-> << >>, choice |-> None,
            current_session_id |-> None, user_id_for_memory |-> None,
            team_session_id |-> None]

\* the argument session_id_arg: None, "" or an id
AppSessionArgs == { None, Some(<< >>), Some(IdS1) }

\* s.get("session_id") of a listed session: None when the entry has no
\* such key, "" or an id
ListedIds == { None, Some(<< >>), Some(IdS1) }

\* bound of the length of the list of recent sessions
MaxListed == 2

\* the lists get_recent_sessions_from_storage can return
RecentLists ==
  UNION { [1..n -> ListedIds] : n \in 0..MaxListed }

\* answers typed at "Continue anyway? (y/n, default: y): ", stripped
AppAnswers == { << >>, << "y" >>, << "n" >>, << "N","o" >> }

\* not x, for x None or a string
Falsy(x) == x = None \/ x = Some(<< >>)

\* datetime.strftime('%y%m%d%H%M%S%f')
strftime_f(t) == ZeroPad(t.sec, 2) \o ZeroPad(t.us, 6)

\* lines 307, 311: f"bls_{datetime.now().strftime('%y%m%d%H%M%S%f')}"
NewSessionId(t) == << "b","l","s","_" >> \o strftime_f(t)

\* line 320: f"bls_fb_{datetime.now().strftime('%y%m%d%H%M%S%f')}"
FallbackSessionId(t) == << "b","l","s","_","f","b","_" >> \o strftime_f(t)

\* lines 286-292, 313-318: current_session_id = session_id_arg
app_run_agent ==
  \E session_id_arg \in AppSessionArgs :
    /\ app.pc \in { "not_started", "returned" }
    /\ app' = [IdleApp EXCEPT
                 !.session_id_arg = session_id_arg,
                 !.current_session_id = session_id_arg,
                 !.pc = IF Falsy(session_id_arg) THEN "list" ELSE "fallback"]
    /\ UNCHANGED << retryVars, storeVars, procVars, runVars, taskVars >>

\* lines 293-294, 309-312: the recent sessions; with none a new id is made
AppListSessions ==
  \E recent_sessions \in RecentLists, t \in ClockReadings :
    /\ app.pc = "list"
    /\ app' = IF Len(recent_sessions) > 0
              THEN [app EXCEPT !.recent_sessions = recent_sessions,
                               !.pc = "choose"]
              ELSE [app EXCEPT !.current_session_id = Some(NewSessionId(t)),
                               !.pc = "fallback"]
    /\ UNCHANGED << retryVars, storeVars, procVars, runVars, taskVars >>

\* lines 297-308: the choice typed takes the session_id of a listed entry
\* or makes a new id
AppChooseSession ==
  \E choice \in Choices, t \in ClockReadings :
    /\ app.pc = "choose"
    /\ app' = IF ValidChoice(choice, app.recent_sessions)
              THEN [app EXCEPT
                      !.choice = Some(choice),
                      !.current_session_id =
                         app.recent_sessions[IntOfDigits(choice)],
                      !.pc = "fallback"]
              ELSE [app EXCEPT
                      !.choice = Some(choice),
                      !.current_session_id = Some(NewSessionId(t)),
                      !.pc = "fallback"]
    /\ UNCHANGED << retryVars, storeVars, procVars, runVars, taskVars >>

\* variant: line 320 is left out
AppFallback_none ==
  /\ app.pc = "fallback"
  /\ app' = [app EXCEPT !.user_id_for_memory = app.current_session_id,
                        !.pc = "port"]
  /\ UNCHANGED << retryVars, storeVars, procVars, runVars, taskVars >>

\* lines 320-322: if not current_session_id a fallback id is made;
\* user_id_for_memory = current_session_id
AppFallback ==
  \E t \in ClockReadings :
    /\ app.pc = "fallback"
    /\ LET id == IF Falsy(app.current_session_id)
                 THEN Some(FallbackSessionId(t))
                 ELSE app.current_session_id
       IN  app' = [app EXCEPT !.current_session_id = id,
                              !.user_id_for_memory = id,
                              !.pc = "port"]
    /\ UNCHANGED << retryVars, storeVars, procVars, runVars, taskVars >>

\* lines 324-333: the port check; the answers n and no end the run
AppPortCheck ==
  \E in_use \in BOOLEAN, answer \in AppAnswers :
    /\ app.pc = "port"
    /\ app' = IF ~in_use /\ Lower(answer) \in { << "n" >>, << "n","o" >> }
              THEN [app EXCEPT !.pc = "returned"]
              ELSE [app EXCEPT !.pc = "connect"]
    /\ UNCHANGED << retryVars, storeVars, procVars, runVars, taskVars >>

\* lines 338-339, 385-388: stdio_client or ClientSession raises
AppConnectFails ==
  /\ app.pc = "connect"
  /\ app' = [app EXCEPT !.pc = "returned"]
  /\ UNCHANGED << retryVars, storeVars, procVars, runVars, taskVars >>

\* lines 341-343: create_blender_team(mcp_client_session,
\* current_session_id, description_for_session)
AppCreateBlenderTeam ==
  /\ app.pc = "connect"
  /\ app' = [app EXCEPT !.team_session_id = app.current_session_id,
                        !.pc = "team"]
  /\ UNCHANGED << retryVars, storeVars, procVars, runVars, taskVars >>

\* lines 345-388: the rest of the run
AppReturns ==
  /\ app.pc = "team"
  /\ app' = [app EXCEPT !.pc = "returned"]
  /\ UNCHANGED << retryVars, storeVars, procVars, runVars, taskVars >>

(***************************************************************************)
(* Specifications                                                          *)
(***************************************************************************)
\* handle_user_message alone; the database is not touched
\* no process has a connection open, run_agent has not been started
InitProcs ==
  /\ procs = [p \in Procs |-> IdleProc]
  /\ writer = 0

InitRun == run = IdleRun

\* two tasks have been created on an idle event loop
InitTasks ==
  /\ tasks = [i \in Tasks |-> NewTask]
  /\ loop = 0

\* app.py's run_agent has not been started
InitApp == app = IdleApp

Init == InitRetry /\ InitStore /\ InitProcs /\ InitRun /\ InitTasks /\ InitApp

Next ==
  \/ handle_user_message
  \/ ForAttempt
  \/ ReturnAfterLoop
  \/ AwaitAprintResponse
  \/ AprintResponseReturns
  \/ ReturnResponse
  \/ ExceptModelRateLimitError
  \/ ExceptModelProviderError
  \/ ExceptException
  \/ SleepDone

Spec == Init /\ [][Next]_vars

\* the ChatHistory operations of one process, in any order
InitChatHistory ==
  /\ InitStore
  /\ InitProcs
  /\ InitRun
  /\ InitTasks
  /\ InitApp
  /\ InitRetry
  /\ max_retries_arg = None
  /\ retry_delay_arg = None

NextChatHistory ==
  \/ create_session
  \/ add_message
  \/ add_message_raises
  \/ get_session_messages
  \/ get_recent_sessions
  \/ get_session_summary

SpecChatHistory == InitChatHistory /\ [][NextChatHistory]_vars

\* processes calling add_message, create_session and get_session_messages
\* on one database file
NextProcesses ==
  \/ \E p \in Procs : Connect(p)
  \/ \E p \in Procs : ExecuteUpdate(p)
  \/ \E p \in Procs : ExecuteInsert(p)
  \/ \E p \in Procs : Commit(p)
  \/ \E p \in Procs : Stop(p)
  \/ LockedCreateSession
  \/ CommittedMessages

SpecProcesses == InitChatHistory /\ [][NextProcesses]_vars

\* runs of trail.py's run_agent, one after the other, on one database file
NextRunAgent ==
  \/ run_agent
  \/ ListRecentSessions
  \/ ChooseSession
  \/ CreateNewSession
  \/ PortCheck
  \/ PathCheck
  \/ ConnectFails
  \/ CreateBlenderAgent
  \/ SceneContext
  \/ InitialMessage
  \/ ResponseStored
  \/ ResponseRaises
  \/ RateLimitedRetry
  \/ BackoffDone
  \/ ResponseFails
  \/ Cancel
  \/ ChatExit
  \/ ChatRefresh
  \/ ChatMessage

SpecRunAgent == InitChatHistory /\ [][NextRunAgent]_vars

\* two retry sequences running as tasks of one event loop
NextTasks ==
  \/ \E i \in Tasks : RunTask(i)
  \/ \E i \in Tasks : TaskCalls(i)
  \/ \E i \in Tasks : Completes(i)
  \/ \E i \in Tasks : TaskCallReturns(i)
  \/ \E i \in Tasks : TaskCallRaises(i)
  \/ \E i \in Tasks : TaskSleepOver(i)

SpecTasks == InitChatHistory /\ [][NextTasks]_vars

\* runs of app.py's run_agent, one after the other
NextApp ==
  \/ app_run_agent
  \/ AppListSessions
  \/ AppChooseSession
  \/ AppFallback
  \/ AppPortCheck
  \/ AppConnectFails
  \/ AppCreateBlenderTeam
  \/ AppReturns

SpecApp == InitChatHistory /\ [][NextApp]_vars

(***************************************************************************)
(* Vocabulary of the properties                                            *)
(***************************************************************************)
\* the message names a rate limit: it contains '429' or 'resource_exhausted'
MentionsRateLimit(msg) ==
  Contains(msg, S429) \/ Contains(Lower(msg), SResExh)

\* the two ways a rate limit reaches handle_user_message
RateLimited(e) ==
  \/ e.kind = "ModelRateLimitError"
  \/ e.kind = "ModelProviderError" /\ MentionsRateLimit(e.msg)

\* a ModelProviderError classified as non-retryable
NonRetryable(e) ==
  e.kind = "ModelProviderError" /\ ~MentionsRateLimit(e.msg)

\* every failed attempt so far failed with a rate-limit error
AllRateLimited == \A i \in 1..Len(errors) : RateLimited(errors[i])

\* a retryable failure whose message carries no 'retryDelay': 'Ns' field
RetryableNoDelay(e) ==
  /\ e.kind = "Exception" \/ RateLimited(e)
  /\ retryDelay_search(e.msg) = None

\* failure i is a ModelProviderError carrying a retryDelay of at least d
ProviderDelayAtLeast(i, d) ==
  /\ errors[i].kind = "ModelProviderError"
  /\ retryDelay_search(errors[i].msg) # None
  /\ retryDelay_search(errors[i].msg)[1] >= d

\* the call failed k < max_retries times with rate-limit errors, then succeeded
SuccessAfterRateLimits ==
  /\ pc = "done"
  /\ Len(results) = 1
  /\ Len(errors) < max_retries
  /\ AllRateLimited

(***************************************************************************)
(* C1: when every attempt fails with a rate-limit error and max_retries =  *)
(* M >= 1, the external call is invoked exactly M times and the terminal   *)
(* error is raised; no execution performs more than M invocations.         *)
(***************************************************************************)
Thm_C1 ==
  (pc # "entry" /\ max_retries >= 1) =>
    /\ invocations <= max_retries
    /\ (pc = "done" /\ results = << >> /\ AllRateLimited) =>
         /\ invocations = max_retries
         /\ Len(errors) = max_retries
         /\ Len(raises) = 1
         /\ RateLimited(raises[1])
         /\ returns = << >>

Witness_C1 ==
  /\ pc = "done"
  /\ max_retries = 3
  /\ invocations = 3
  /\ Len(errors) = 3
  /\ AllRateLimited
  /\ Len(raises) = 1

(***************************************************************************)
(* C2: when max_retries (>= 1) attempts have all failed, the error raised  *)
(* to the caller is the error object of the final attempt, with its class  *)
(* and message unchanged, and nothing is returned.                         *)
(***************************************************************************)
Thm_C2 ==
  (pc = "done" /\ max_retries >= 1 /\ Len(errors) = max_retries) =>
    /\ returns = << >>
    /\ raises = << errors[max_retries] >>
    /\ raises[1].id = max_retries

Witness_C2 ==
  /\ pc = "done"
  /\ max_retries = 3
  /\ Len(errors) = 3
  /\ errors[1].kind = "ModelRateLimitError"
  /\ errors[2].kind = "ModelProviderError"
  /\ errors[3].kind = "Exception"
  /\ raises = << errors[3] >>

(***************************************************************************)
(* C3 as stated: after k < max_retries rate-limited failures and a         *)
(* success, the success result is returned after exactly k waits, each     *)
(* wait greater than or equal to the wait before it, with or without a     *)
(* provider-suggested retryDelay.                                          *)
(***************************************************************************)
Cex_C3 ==
  SuccessAfterRateLimits =>
    /\ returns = results
    /\ Len(waits) = Len(errors)
    /\ \A i \in 1..(Len(waits) - 1) : waits[i + 1] >= waits[i]

(***************************************************************************)
(* C3 amended: the success result is returned after exactly k waits, and   *)
(* a wait is greater than or equal to the wait before it unless the        *)
(* earlier failure was a ModelProviderError whose retryDelay exceeds       *)
(* retry_delay * 2^(attempt index of the later failure).                   *)
(***************************************************************************)
Thm_C3 ==
  SuccessAfterRateLimits =>
    /\ returns = results
    /\ Len(waits) = Len(errors)
    /\ \A i \in 1..(Len(waits) - 1) :
         ~ProviderDelayAtLeast(i, retry_delay * (2 ^ i) + 1)
           => waits[i + 1] >= waits[i]

Witness_C3 ==
  /\ SuccessAfterRateLimits
  /\ retry_delay = 20
  /\ Len(errors) = 2
  /\ ProviderDelayAtLeast(1, 30)
  /\ waits = << 30, 40 >>
  /\ returns = results

(***************************************************************************)
(* C4: a ModelProviderError whose message contains neither '429' nor       *)
(* 'resource_exhausted' is propagated at the attempt where it occurs: it   *)
(* is the last failure, it is the error raised, no wait and no invocation  *)
(* follows it (one invocation and zero waits on the first attempt).        *)
(***************************************************************************)
Thm_C4 ==
  \A i \in 1..Len(errors) :
    NonRetryable(errors[i]) =>
      /\ i = Len(errors)
      /\ pc = "done"
      /\ raises = << errors[i] >>
      /\ returns = << >>
      /\ invocations = i
      /\ Len(waits) = i - 1

Witness_C4 ==
  /\ max_retries = 3
  /\ Len(errors) = 1
  /\ NonRetryable(errors[1])
  /\ invocations = 1
  /\ waits = << >>
  /\ Len(raises) = 1

(***************************************************************************)
(* C5: after every rate-limited failure with attempts remaining, the wait  *)
(* is max(provider-suggested delay if present, retry_delay * 2^attempt),   *)
(* for a ModelRateLimitError as well as for a rate-limited                 *)
(* ModelProviderError.                                                     *)
(***************************************************************************)
Cex_C5 ==
  \A i \in 1..Len(waits) :
    RateLimited(errors[i]) =>
      LET dm == retryDelay_search(errors[i].msg)
          backoff == retry_delay * (2 ^ (i - 1))
      IN  waits[i] = IF dm = None THEN backoff ELSE Max(dm[1], backoff)

(***************************************************************************)
(* C6: with retry_delay = 20 and max_retries = 3, two retryable failures   *)
(* without a provider-suggested delay followed by a success give the       *)
(* waits 20 and 40 and the success result after exactly 3 invocations.     *)
(***************************************************************************)
Scenario_C6 ==
  /\ pc = "done"
  /\ retry_delay = 20
  /\ max_retries = 3
  /\ Len(errors) = 2
  /\ RetryableNoDelay(errors[1])
  /\ RetryableNoDelay(errors[2])
  /\ Len(results) = 1

Thm_C6 ==
  Scenario_C6 =>
    /\ waits = << 20, 40 >>
    /\ returns = results
    /\ raises = << >>
    /\ invocations = 3

Witness_C6 ==
  /\ Scenario_C6
  /\ errors[1].id = 1
  /\ errors[2].id = 2
  /\ invocations = 3
  /\ Len(returns) = 1

(***************************************************************************)
(* C7 as stated: with a positive retry_delay every wait is strictly        *)
(* greater than the wait before it, with or without provider-suggested     *)
(* delays.                                                                 *)
(***************************************************************************)
Cex_C7 ==
  (pc # "entry" /\ retry_delay > 0) =>
    \A i \in 1..(Len(waits) - 1) : waits[i + 1] > waits[i]

(***************************************************************************)
(* C7 amended: with a positive retry_delay a wait is strictly greater than *)
(* the wait before it unless the earlier failure was a ModelProviderError  *)
(* whose retryDelay is at least retry_delay * 2^(attempt index of the      *)
(* later failure).                                                         *)
(***************************************************************************)
Thm_C7 ==
  (pc # "entry" /\ retry_delay > 0) =>
    \A i \in 1..(Len(waits) - 1) :
      ~ProviderDelayAtLeast(i, retry_delay * (2 ^ i))
        => waits[i + 1] > waits[i]

Witness_C7 ==
  /\ retry_delay = 1
  /\ Len(waits) = 2
  /\ errors[1].kind = "ModelRateLimitError"
  /\ retryDelay_search(errors[1].msg) # None
  /\ ProviderDelayAtLeast(2, 30)
  /\ waits[1] < waits[2]

(***************************************************************************)
(* C8: an error that is neither a ModelRateLimitError nor a                *)
(* ModelProviderError is followed by a wait of retry_delay * 2^attempt     *)
(* while attempts remain, and is raised to the caller when it is the       *)
(* failure of attempt max_retries - 1.                                     *)
(***************************************************************************)
Thm_C8 ==
  \A i \in 1..Len(errors) :
    errors[i].kind = "Exception" =>
      IF i < max_retries
      THEN /\ Len(waits) >= i
           /\ waits[i] = retry_delay * (2 ^ (i - 1))
           /\ i = Len(errors) => raises = << >>
      ELSE /\ i = max_retries
           /\ pc = "done"
           /\ raises = << errors[i] >>
           /\ Len(waits) = i - 1

Witness_C8 ==
  /\ pc = "done"
  /\ max_retries = 3
  /\ retry_delay = 1
  /\ Len(errors) = 3
  /\ \A i \in 1..3 : errors[i].kind = "Exception"
  /\ waits = << 1, 2 >>
  /\ raises = << errors[3] >>

(***************************************************************************)
(* C9: for max_retries >= 1 an execution has exactly one outcome: the      *)
(* result of a successful call is returned, or the terminal error of the   *)
(* last failed call is raised (a non-retryable provider error or the       *)
(* error of attempt max_retries - 1), never both, and after the outcome    *)
(* nothing is invoked, slept, returned or raised.                          *)
(***************************************************************************)
Resolved == Len(returns) + Len(raises) >= 1

Inv_C9 ==
  (pc # "entry" /\ max_retries >= 1) =>
    /\ Len(returns) + Len(raises) <= 1
    /\ (pc = "done") <=> Resolved
    /\ returns # << >> => (Len(results) = 1 /\ returns = results)
    /\ raises # << >> =>
         /\ results = << >>
         /\ raises[1] = errors[Len(errors)]
         /\ NonRetryable(raises[1]) \/ raises[1].id = max_retries

Thm_C9 ==
  /\ []Inv_C9
  /\ [][ Resolved => UNCHANGED << invocations, waits, results, errors,
                                  returns, raises >> ]_vars

Witness_C9 ==
  /\ pc = "done"
  /\ max_retries = 3
  /\ Len(returns) = 1
  /\ Len(errors) = 2
  /\ errors[1].kind = "Exception"
  /\ errors[2].kind = "ModelProviderError"

(***************************************************************************)
(* C10: get_session_messages returns the session's messages in             *)
(* non-decreasing timestamp order (as the stored text compares, and as     *)
(* the clock readings behind it compare), as many as add_message calls     *)
(* for that session id have returned, each with its row's role and         *)
(* content; with no messages it returns an empty list, not an error.       *)
(***************************************************************************)
Thm_C10 ==
  call.op = "get_session_messages" =>
    /\ call.ok
    /\ Len(call.value) = appended[call.arg]
    /\ Len(call.rows) = Len(call.value)
    /\ \A k \in 1..Len(call.rows) :
         /\ messages[call.rows[k]].session_id = call.arg
         /\ call.value[k] = [role |-> messages[call.rows[k]].role,
                             content |-> messages[call.rows[k]].content]
    /\ \A k \in 1..(Len(call.rows) - 1) :
         /\ ~TextLess(messages[call.rows[k + 1]].timestamp,
                      messages[call.rows[k]].timestamp)
         /\ Micros(stamped[call.rows[k]]) <= Micros(stamped[call.rows[k + 1]])
    /\ appended[call.arg] = 0 => call.value = << >>

Witness_C10 ==
  /\ call.op = "get_session_messages"
  /\ appended[call.arg] = 2
  /\ call.rows = << 2, 1 >>
  /\ messages[1].role # messages[2].role
  /\ TextLess(messages[2].timestamp, messages[1].timestamp)

(***************************************************************************)
(* ChatHistory: ids, recent sessions, errors, frame conditions             *)
(***************************************************************************)
\* the rowid in sessions of the row with this PRIMARY KEY
RowOf(session_id) ==
  CHOOSE i \in 1..Len(sessions) : sessions[i].session_id = session_id

\* C11: a create_session call without an explicit id never computes an id
\* that an earlier call without an explicit id has computed already.
Cex_C11 ==
  (call.op = "create_session" /\ call.arg = None) => call.note = None

\* C12: get_recent_sessions(limit) returns at most limit sessions (all of
\* them when there are fewer), the returned sessions are in non-increasing
\* order of last_updated, no session left out has a greater last_updated
\* than a returned one, and the result is empty when there is no session.
Thm_C12 ==
  call.op = "get_recent_sessions" =>
    LET n == call.arg[1]
        len == Len(call.value)
    IN  /\ len <= n
        /\ len = (IF n < Len(sessions) THEN n ELSE Len(sessions))
        /\ Len(call.rows) = len
        /\ \A k \in 1..len :
             /\ call.rows[k] \in 1..Len(sessions)
             /\ call.value[k].session_id = sessions[call.rows[k]].session_id
             /\ call.value[k].created_at = sessions[call.rows[k]].created_at
             /\ \A l \in 1..len : call.rows[k] = call.rows[l] => k = l
        /\ \A k \in 1..(len - 1) :
             ~TextLess(sessions[call.rows[k]].last_updated,
                       sessions[call.rows[k + 1]].last_updated)
        /\ \A j \in 1..Len(sessions) :
             (\A k \in 1..len : call.rows[k] # j) =>
               \A k \in 1..len :
                 ~TextLess(sessions[call.rows[k]].last_updated,
                           sessions[j].last_updated)
        /\ (sessions = << >> => call.value = << >>)

\* a query with limit 1 chose the later updated of two sessions
Witness_C12 ==
  /\ call.op = "get_recent_sessions"
  /\ call.arg = Some(1)
  /\ Len(sessions) = 2
  /\ Len(call.value) = 1
  /\ TextLess(sessions[1].last_updated, sessions[2].last_updated)
  /\ call.rows = << 2 >>

\* get_recent_sessions ranked a session last, add_message then succeeded on
\* it, and the present call is the next get_recent_sessions, with a limit
\* of at least one
AfterBump(session_id) ==
  /\ call.op = "get_recent_sessions"
  /\ call.note = Some(session_id)
  /\ call.arg[1] >= 1

\* C13 as stated: after add_message succeeded on the session that
\* get_recent_sessions ranked last, the next get_recent_sessions ranks that
\* session first.
Cex_C13 ==
  \A session_id \in SessionIdArgs :
    AfterBump(session_id) =>
      sessions[call.rows[1]].session_id = session_id

\* the clock reading add_message took is later than the last_updated of
\* every other session
ReadLater(session_id) ==
  \A j \in 1..Len(sessions) :
    sessions[j].session_id # session_id =>
      TextLess(sessions[j].last_updated, isoformat(stamped[Len(stamped)]))

\* C13: after add_message succeeded on the session that get_recent_sessions
\* ranked last, the next get_recent_sessions ranks that session first,
\* provided the clock reading add_message took is later than the
\* last_updated of every other session.
Thm_C13 ==
  \A session_id \in SessionIdArgs :
    (AfterBump(session_id) /\ ReadLater(session_id)) =>
      sessions[call.rows[1]].session_id = session_id

\* of two sessions the one ranked last received a message at a later clock
\* reading and the query ranks both
Witness_C13 ==
  \E session_id \in SessionIdArgs :
    /\ AfterBump(session_id)
    /\ ReadLater(session_id)
    /\ Len(sessions) = 2
    /\ Len(call.rows) = 2
    /\ sessions[call.rows[1]].session_id = session_id

\* C14: add_message with a session_id that has no row in sessions fails and
\* no message with that session_id is stored.
Cex_C14 ==
  (call.op = "add_message" /\ ~SessionExists(call.arg)) =>
    (~call.ok /\ MessagesOf(call.arg) = {})

\* C15: create_session with an explicit id that exists fails and leaves
\* both tables as they were.
Thm_C15 ==
  [][\A id \in ExplicitIds :
       (call'.op = "create_session" /\ call'.arg = Some(id) /\ SessionExists(id)) =>
         (~call'.ok /\ sessions' = sessions /\ messages' = messages)]_vars

\* the explicit id existed, with a message and a refreshed last_updated, when
\* create_session was called with it
Witness_C15 ==
  /\ call.op = "create_session"
  /\ call.arg = Some(IdS1)
  /\ ~call.ok
  /\ SessionExists(IdS1)
  /\ MessagesOf(IdS1) # {}
  /\ sessions[RowOf(IdS1)].last_updated # sessions[RowOf(IdS1)].created_at

\* C18: every step keeps every stored message row as it is; the table only
\* grows.
Thm_C18 ==
  [][\A i \in 1..Len(messages) :
       Len(messages') >= i /\ messages'[i] = messages[i]]_vars

\* a second message was stored after the first, for the same session
Witness_C18 ==
  /\ call.op = "add_message"
  /\ call.ok
  /\ Len(messages) = 2
  /\ messages[1].session_id = messages[2].session_id
  /\ messages[1].timestamp # messages[2].timestamp

\* C19: every step keeps every sessions row, with its session_id and its
\* created_at.
Thm_C19 ==
  [][\A i \in 1..Len(sessions) :
       /\ Len(sessions') >= i
       /\ sessions'[i].session_id = sessions[i].session_id
       /\ sessions'[i].created_at = sessions[i].created_at]_vars

\* add_message refreshed last_updated of one of two sessions
Witness_C19 ==
  /\ call.op = "add_message"
  /\ call.ok
  /\ Len(sessions) = 2
  /\ SessionExists(call.arg)
  /\ sessions[RowOf(call.arg)].last_updated # sessions[RowOf(call.arg)].created_at

(***************************************************************************)
(* add_message in processes sharing the database file                      *)
(***************************************************************************)
\* C16: in every step, also one in which a process stops inside add_message,
\* the file gains either both effects of one add_message or neither: a new
\* message row comes with the last_updated of its session set to the row's
\* timestamp, and the last_updated of a session changes only together with a
\* new message row of that session carrying that timestamp.
Thm_C16 ==
  [][/\ messages' # messages =>
          /\ Len(messages') = Len(messages) + 1
          /\ SubSeq(messages', 1, Len(messages)) = messages
          /\ \A i \in 1..Len(sessions') :
               sessions'[i].session_id = messages'[Len(messages')].session_id =>
                 sessions'[i].last_updated = messages'[Len(messages')].timestamp
     /\ \A i \in 1..Len(sessions) :
          sessions'[i].last_updated # sessions[i].last_updated =>
            /\ Len(messages') = Len(messages) + 1
            /\ messages'[Len(messages')].session_id = sessions[i].session_id
            /\ messages'[Len(messages')].timestamp = sessions'[i].last_updated
     /\ \A p \in Procs :
          (procs[p].pc # "idle" /\ procs'[p].pc = "idle" /\ ~call'.ok) =>
            (sessions' = sessions /\ messages' = messages)]_vars

\* a process stopped after its INSERT and before its commit; the session
\* exists and shows neither the message nor a refreshed last_updated
Witness_C16 ==
  /\ call.op = "add_message"
  /\ ~call.ok
  /\ call.value = << "inserted" >>
  /\ SessionExists(call.arg)
  /\ MessagesOf(call.arg) = {}
  /\ sessions[RowOf(call.arg)].last_updated = sessions[RowOf(call.arg)].created_at

\* C17: whatever the processes have done, get_session_messages returns
\* the committed messages of the session, each exactly once, as many as
\* add_message calls for the session have committed, in non-decreasing
\* order of timestamp.
Thm_C17 ==
  call.op = "get_session_messages" =>
    /\ Len(call.rows) = appended[call.arg]
    /\ { call.rows[k] : k \in 1..Len(call.rows) } = MessagesOf(call.arg)
    /\ \A k \in 1..Len(call.rows) : \A l \in 1..Len(call.rows) :
         call.rows[k] = call.rows[l] => k = l
    /\ \A k \in 1..Len(call.rows) : \A l \in 1..Len(call.rows) :
         k < l => ~TextLess(messages[call.rows[l]].timestamp,
                            messages[call.rows[k]].timestamp)
    /\ Len(call.value) = Len(call.rows)
    /\ \A k \in 1..Len(call.rows) :
         /\ call.value[k].role = messages[call.rows[k]].role
         /\ call.value[k].content = messages[call.rows[k]].content

\* the query returned the one committed message of a session while another
\* process held the write lock with an INSERT for the same session, of an
\* earlier timestamp, not yet committed
Witness_C17 ==
  /\ call.op = "get_session_messages"
  /\ Len(call.rows) = 1
  /\ SessionExists(call.arg)
  /\ \E p \in Procs :
       /\ procs[p].pc = "inserted"
       /\ writer = p
       /\ procs[p].session_id = Some(call.arg)
       /\ TextLess(isoformat(procs[p].now[1]), messages[call.rows[1]].timestamp)

(***************************************************************************)
(* run_agent of trail.py and the session store                             *)
(***************************************************************************)
\* C20: in every state of a run of run_agent, also of one started with a
\* session id the caller passed and nobody created, the session_id of every
\* stored message has a row in sessions.
Cex_C20 ==
  \A i \in 1..Len(messages) : SessionExists(messages[i].session_id)

(***************************************************************************)
(* ChatHistory: effect of add_message on sessions, session lookup          *)
(***************************************************************************)
\* C21: a step that appends a message for a session with a sessions row
\* sets that row's last_updated to the timestamp of the appended message
\* and changes nothing else in table sessions: created_at, description and
\* every other row stay as they were.
Thm_C21 ==
  [][(Len(messages') = Len(messages) + 1
        /\ SessionExists(messages'[Len(messages')].session_id)) =>
       /\ Len(sessions') = Len(sessions)
       /\ \A i \in 1..Len(sessions) :
            IF sessions[i].session_id = messages'[Len(messages')].session_id
            THEN /\ sessions'[i].last_updated = messages'[Len(messages')].timestamp
                 /\ sessions'[i].created_at = sessions[i].created_at
                 /\ sessions'[i].description = sessions[i].description
                 /\ sessions'[i].session_id = sessions[i].session_id
            ELSE sessions'[i] = sessions[i]]_vars

\* add_message changed last_updated of one of two sessions, whose other
\* row holds a different last_updated
Witness_C21 ==
  /\ call.op = "add_message"
  /\ call.ok
  /\ Len(sessions) = 2
  /\ SessionExists(call.arg)
  /\ sessions[RowOf(call.arg)].last_updated = messages[Len(messages)].timestamp
  /\ sessions[RowOf(call.arg)].last_updated # sessions[RowOf(call.arg)].created_at
  /\ \E j \in 1..2 : sessions[j].last_updated # sessions[RowOf(call.arg)].last_updated

\* C24: get_session_summary returns None exactly when the id has no row in
\* sessions; otherwise it returns the row's created_at, last_updated and
\* description and a message_count equal to the number of stored messages
\* with that session_id.
Thm_C24 ==
  call.op = "get_session_summary" =>
    /\ (call.value = None) <=> ~SessionExists(call.arg)
    /\ SessionExists(call.arg) =>
         /\ Len(call.value) = 1
         /\ call.value[1].session_id = call.arg
         /\ call.value[1].created_at = sessions[RowOf(call.arg)].created_at
         /\ call.value[1].last_updated = sessions[RowOf(call.arg)].last_updated
         /\ call.value[1].description = sessions[RowOf(call.arg)].description
         /\ call.value[1].message_count =
              Cardinality({ i \in 1..Len(messages) :
                              messages[i].session_id = call.arg })

\* the summary of a session counts its one message while the table holds a
\* message of another id as well
Witness_C24 ==
  /\ call.op = "get_session_summary"
  /\ SessionExists(call.arg)
  /\ Len(messages) = 2
  /\ call.value[1].message_count = 1

(***************************************************************************)
(* Storage errors in the retry loop of handle_user_message                 *)
(***************************************************************************)
\* the database layer raised the error
StorageError(e) == e.kind = "OperationalError"

\* C23: a storage error raised during a call is the last thing the retry
\* loop sees: no call is made after it, no wait follows it, and when the
\* coroutine has ended it has raised that error to its caller.
Cex_C23 ==
  \A i \in 1..Len(errors) :
    StorageError(errors[i]) =>
      /\ i = Len(errors)
      /\ invocations = errors[i].id
      /\ Len(waits) < i
      /\ pc = "done" => raises = << errors[i] >>

(***************************************************************************)
(* run_agent of trail.py: outcomes of a task, pre-flight check, retry      *)
(* loops, cancellation, resumed sessions                                   *)
(***************************************************************************)
\* C22: whenever the processing of a task has ended and run_agent is back
\* at the prompt, the messages stored under the session contain, after the
\* task's user message, a record of the outcome of the task.
Cex_C22 ==
  (run.pc = "chat" /\ run.task > 0) =>
    \E j \in (run.task + 1)..Len(messages) :
      /\ messages[j].session_id = run.session_id[1]
      /\ messages[j].role # "user"
      /\ messages[j].content # "scene"

\* the answers that do not decline
Accepting == { << "y" >>, << "Y" >> }

\* the run went on after the pre-flight check
Proceeded ==
  \/ run.connected
  \/ run.pc \in { "path", "connect", "scene", "initial", "respond", "except",
                   "backoff", "chat", "raised" }

\* C25: a refused connection counts as not running: the caller has then
\* been asked; the run goes on to the scene-control connection only after an
\* accepting answer; after a declining answer the run has returned without
\* having connected; and the step of the check leaves the stored sessions
\* and messages as they are.
Thm_C25 ==
  /\ [](run.port = Some(ECONNREFUSED) =>
          /\ run.answer # None
          /\ Proceeded => run.answer[1] \in Accepting
          /\ run.answer[1] \notin Accepting =>
               (run.pc = "returned" /\ ~run.connected))
  /\ [][run.pc = "port" => (sessions' = sessions /\ messages' = messages)]_vars

\* the caller declined after a refused connection, with a message of an
\* earlier run in the database
Witness_C25 ==
  /\ run.pc = "returned"
  /\ run.port = Some(ECONNREFUSED)
  /\ run.answer = Some(<< "n" >>)
  /\ ~run.connected
  /\ Len(messages) > 0

\* C26: when the last of the 5 attempts fails with a rate-limit error, the
\* handler lets that error leave the retry loop as a raised exception.
Cex_C26 ==
  [][(run.pc = "except"
        /\ IsRateLimit429(run.error[1])
        /\ run.attempt = RUN_MAX_RETRIES - 1) =>
       (run'.pc = "raised" /\ run'.error = run.error)]_vars

\* C27: an error of the model call that is not a rate-limit error is
\* handled as a rate-limit error is: with attempts left the loop waits
\* retry_delay * 2 ** attempt and goes on, on the last attempt the error is
\* propagated.
Cex_C27 ==
  [][(run.pc = "except"
        /\ run.error[1] \in RunErrors
        /\ ~IsRateLimit429(run.error[1])) =>
       IF run.attempt < RUN_MAX_RETRIES - 1
       THEN run'.pc = "backoff" /\ run'.wait = RUN_RETRY_DELAY * Pow2(run.attempt)
       ELSE run'.pc = "raised"]_vars

\* C29: a step that delivers a cancellation finds the run suspended in the
\* model call or in the backoff sleep, ends it with the CancelledError raised
\* and leaves sessions and messages as they are; a run ended that way takes
\* no further step (the next step is a new call of run_agent).
Thm_C29 ==
  /\ [][(run'.error = Some(CancelledError) /\ run.error # Some(CancelledError)) =>
          /\ run.pc \in { "respond", "backoff" }
          /\ run'.pc = "raised"
          /\ messages' = messages
          /\ sessions' = sessions]_vars
  /\ [][run.pc = "raised" =>
          /\ run'.pc \in { "list", "port" }
          /\ messages' = messages
          /\ sessions' = sessions]_vars

\* a run cancelled after a backoff, with the user message of its task stored
Witness_C29 ==
  /\ run.pc = "raised"
  /\ run.error = Some(CancelledError)
  /\ run.attempt > 0
  /\ run.task > 0
  /\ messages[run.task].role = "user"

\* C30: a run started with a session id uses that id throughout: it
\* generates no id and creates no session, every message it appends is
\* stored under that id, and the context create_blender_agent loads is
\* the messages stored under that id.
Thm_C30 ==
  /\ [](run.arg # None => run.session_id = run.arg)
  /\ [][(run.arg # None /\ run'.arg = run.arg
           /\ run.pc \notin { "not_started", "returned", "raised" }) =>
          /\ generated' = generated
          /\ Len(sessions') = Len(sessions)
          /\ Len(messages') # Len(messages) =>
               /\ Len(messages') = Len(messages) + 1
               /\ messages'[Len(messages')].session_id = run.arg[1]
          /\ (run.pc = "connect" /\ run'.pc = "scene") =>
               /\ call'.op = "get_session_messages"
               /\ call'.arg = run.arg[1]
               /\ { call'.rows[k] : k \in 1..Len(call'.rows) } = MessagesOf(run.arg[1])
               /\ Len(call'.rows) = Cardinality(MessagesOf(run.arg[1]))
               /\ \A k \in 1..Len(call'.rows) :
                    /\ call'.value[k].role = messages[call'.rows[k]].role
                    /\ call'.value[k].content = messages[call'.rows[k]].content]_vars

\* a run resumed with a session id has loaded the two messages stored
\* under it
Witness_C30 ==
  /\ run.arg = Some(IdS1)
  /\ run.pc = "scene"
  /\ call.op = "get_session_messages"
  /\ Len(call.value) = 2

(***************************************************************************)
(* Retry sequences as tasks of one event loop                              *)
(***************************************************************************)
\* task i is suspended in the model call or in the backoff sleep
Waiting(i) == tasks[i].pc \in { "call", "sleep" } /\ ~tasks[i].woken

\* C28: in no state does a task waiting in a backoff sleep or in the model
\* call keep another task that can run from taking its step.
Thm_C28 ==
  \A i \in Tasks, j \in Tasks :
    (i # j /\ Waiting(i) /\ Runnable(j)) => ENABLED TaskStep(j)

\* task 1 is in its backoff sleep while the event loop runs task 2
Witness_C28 ==
  /\ tasks[1].pc = "sleep"
  /\ ~tasks[1].woken
  /\ loop = 2

Thm_C32 ==
  (pc # "entry" /\ max_retries_arg # None /\ max_retries_arg[1] <= 0) =>
    /\ invocations = 0
    /\ waits = << >>
    /\ errors = << >>
    /\ raises = << >>
    /\ pc \in { "for", "done" }
    /\ pc = "done" => returns = << "" >>

\* the call with max_retries = -1 has returned ""
Witness_C32 ==
  /\ pc = "done"
  /\ max_retries_arg = Some(0 - 1)
  /\ returns = << "" >>
  /\ invocations = 0

(***************************************************************************)
(* add_message in processes: last_updated over time                        *)
(***************************************************************************)
\* C33: no commit of add_message, made with a clock reading not earlier
\* than the session's created_at, lowers the last_updated that a stored
\* message has given to the session, also when the committing process read
\* the clock (a clock that had not gone back) before another process whose
\* add_message committed first.
Cex_C33 ==
  [][\A p \in Procs :
       (procs[p].pc = "inserted" /\ procs'[p].pc = "idle" /\ call'.ok
          /\ procs[p].mono) =>
         \A i \in 1..Len(sessions) :
           (/\ ~TextLess(isoformat(procs[p].now[1]), sessions[i].created_at)
            /\ \E k \in MessagesOf(sessions[i].session_id) :
                 messages[k].timestamp = sessions[i].last_updated) =>
             ~TextLess(sessions'[i].last_updated, sessions[i].last_updated)]_vars

(***************************************************************************)
(* get_session_messages and the order of appending                         *)
(***************************************************************************)
\* C34: get_session_messages returns the messages of a session in the
\* order in which they were appended (the order of their rowids), also
\* when a later append read an earlier clock value; stated here for
\* sessions whose messages carry pairwise different timestamps.
Cex_C34 ==
  (call.op = "get_session_messages"
     /\ \A k \in MessagesOf(call.arg) : \A l \in MessagesOf(call.arg) :
          k # l => messages[k].timestamp # messages[l].timestamp) =>
    \A k \in 1..(Len(call.rows) - 1) : call.rows[k] < call.rows[k + 1]

(***************************************************************************)
(* run_agent of trail.py: user and assistant messages, end of the loop     *)
(***************************************************************************)
\* the number of stored messages of a session with a role
CountRole(session_id, role) ==
  Cardinality({ k \in MessagesOf(session_id) : messages[k].role = role })

\* the run is in a retry loop: at the call, in the handler, in the sleep
InRetryLoop == run.pc \in { "respond", "except", "backoff" }

\* C35: no session holds more assistant messages than user messages; while
\* the model is being called for a message, that message is stored as a
\* user message of the session of the run and no reply to it is stored;
\* and a step stores at most one assistant message.
Thm_C35 ==
  /\ [](/\ \A session_id \in SessionIdArgs :
             CountRole(session_id, "assistant") <= CountRole(session_id, "user")
        /\ InRetryLoop =>
             /\ run.task \in 1..Len(messages)
             /\ messages[run.task].role = "user"
             /\ messages[run.task].session_id = run.session_id[1]
             /\ \A k \in (run.task + 1)..Len(messages) :
                  messages[k].role # "assistant")
  /\ [][\A session_id \in SessionIdArgs :
          CountRole(session_id, "assistant")' <= CountRole(session_id, "assistant") + 1]_vars

\* the fifth attempt has failed: the user message is stored, no reply is
Witness_C35 ==
  /\ run.pc = "except"
  /\ run.attempt = RUN_MAX_RETRIES - 1
  /\ CountRole(run.session_id[1], "user") = 1
  /\ CountRole(run.session_id[1], "assistant") = 0

\* the run is in the chat loop or in a retry loop
InChatLoop == run.pc = "chat" \/ InRetryLoop

\* the line typed was exit or quit, in any case
TypedExit(user_input) ==
  user_input \in { InputExit, InputQuit, << "E","X","I","T" >>, << "q","u","i","t" >> }

\* C36 as stated: the loop ends only at the prompt, by the input exit or
\* quit or by an error of the add_message of the typed message.
Cex_C36 ==
  [][(InChatLoop /\ ~InChatLoop') =>
       /\ run.pc = "chat"
       /\ run'.pc = "returned"
       /\ \/ TypedExit(run'.input[1])
          \/ (call'.op = "add_message" /\ ~call'.ok)]_vars

\* C36: no outcome of a model call ends the loop: after a stored reply and
\* after the handler of an error the run is back at the prompt or in the
\* backoff sleep; the loop ends at the prompt, by the input exit or quit or
\* by an error of the add_message of the typed message, or by the
\* cancellation of the task while it awaits the call or the sleep.
Thm_C36 ==
  /\ [][run.pc = "except" => run'.pc \in { "chat", "backoff" }]_vars
  /\ [][(run.pc = "respond" /\ run'.pc # "respond") =>
          run'.pc \in { "chat", "except", "raised" }]_vars
  /\ [][(InChatLoop /\ ~InChatLoop') =>
          \/ /\ run.pc = "chat"
             /\ run'.pc = "returned"
             /\ \/ TypedExit(run'.input[1])
                \/ (call'.op = "add_message" /\ ~call'.ok)
          \/ /\ run.pc \in { "respond", "backoff" }
             /\ run'.pc = "raised"
             /\ run'.error = Some(CancelledError)]_vars

\* after a message whose model call failed, the run is at the prompt again
\* and the next line typed is stored
Witness_C36 ==
  /\ run.pc = "respond"
  /\ run.task = 2
  /\ messages[1].role = "user"
  /\ messages[1].session_id = run.session_id[1]
  /\ messages[2].role = "user"
  /\ run.input # None

(***************************************************************************)
(* run_agent of app.py: the session id of the team                         *)
(***************************************************************************)
\* C37: from line 322 on, current_session_id is a non-empty string and
\* user_id_for_memory equals it; the id create_blender_team receives is
\* that string; a non-empty id passed as argument is the id used.
Thm_C37 ==
  /\ app.pc \in { "port", "connect", "team" } =>
       /\ app.current_session_id # None
       /\ Len(app.current_session_id[1]) > 0
       /\ app.user_id_for_memory = app.current_session_id
       /\ ~Falsy(app.session_id_arg) =>
            app.current_session_id = app.session_id_arg
  /\ app.team_session_id # None =>
       /\ Len(app.team_session_id[1]) > 0
       /\ app.user_id_for_memory = app.team_session_id

\* the entry chosen from the list had no session_id: the team received
\* a fallback id
Witness_C37 ==
  /\ app.pc = "team"
  /\ app.choice = Some(<< "2" >>)
  /\ Len(app.recent_sessions) = 2
  /\ app.recent_sessions[2] = None
  /\ \E t \in ClockReadings :
       app.team_session_id = Some(FallbackSessionId(t))

(***************************************************************************)
(* ChatHistory: connections                                                *)
(***************************************************************************)
\* C38: when a ChatHistory operation has returned or raised, on a failure
\* path as on a success path, it has left no database connection open.
Cex_C38 == call.open = 0

====
